---- MODULE Spec2Model ----
(***************************************************************************)
(* Tool-execution runtime of local_ai_agent:                               *)
(*   - the path policy and the operations of FileSystemTool                *)
(*     (backend/tools/file_system_tool.py),                                *)
(*   - BaseTool.execute, the engine that wraps every tool                  *)
(*     (backend/tools/base_tool.py),                                       *)
(*   - ImprovedAgentService.execute_tool / agent_chat_with_tools, its      *)
(*     sessions and their sweep (backend/services/agent_service.py),       *)
(*   - the permission API (backend/api/permissions.py),                    *)
(*   - the URL validation and the search cache of WebSearchTool            *)
(*     (backend/tools/web_search_tool.py).                                 *)
(*                                                                         *)
(* A Python str is a sequence of one-character strings; a pathlib.Path is  *)
(* the sequence of its segments.  The modelled host is POSIX and its file  *)
(* system holds no symbolic links.                                         *)
(***************************************************************************)
EXTENDS Integers, Sequences, FiniteSets, TLC

\* ------------------------------------------------------------------ str

\* s.startswith(p)
StartsWith(s, p) ==
    /\ Len(p) <= Len(s)
    /\ SubSeq(s, 1, Len(p)) = p

\* `p in s` for two str values
Contains(s, p) ==
    \E i \in 0..(Len(s) - Len(p)) : SubSeq(s, i + 1, i + Len(p)) = p

\* str.lower(), on the letters the modelled names use
LowerChar(c) ==
    CASE c = "P" -> "p"
      [] c = "Y" -> "y"
      [] c = "L" -> "l"
      [] OTHER   -> c

Lower(s) == [i \in 1..Len(s) |-> LowerChar(s[i])]

\* index of the last "." of s, 0 when there is none (str.rfind + 1)
RFindDot(s) ==
    LET I == {i \in 1..Len(s) : s[i] = "."}
    IN  IF I = {} THEN 0 ELSE CHOOSE i \in I : \A j \in I : j <= i

\* ----------------------------------------------------------- pathlib.Path

\* the segments of a str split on "/" (empty segments included)
RECURSIVE SplitSlash(_)
SplitSlash(s) ==
    IF s = <<>> THEN << <<>> >>
    ELSE LET rest == SplitSlash(Tail(s))
         IN  IF Head(s) = "/"
             THEN << <<>> >> \o rest
             ELSE << <<Head(s)>> \o Head(rest) >> \o Tail(rest)

\* PurePosixPath parsing: empty and "." segments are dropped, ".." is kept
Parts(s) ==
    SelectSeq(SplitSlash(s), LAMBDA g : g # <<>> /\ g # <<".">>)

IsAbsolute(s) == s # <<>> /\ s[1] = "/"

\* the process's working directory, as segments: /w
Cwd == << <<"w">> >>

\* the segments the OS walks for a raw path: from the root
RawParts(s) == IF IsAbsolute(s) THEN Parts(s) ELSE Cwd \o Parts(s)

\* Path.resolve() of segments: ".." pops a segment, and stays at the root
RECURSIVE Normalize(_, _)
Normalize(done, todo) ==
    IF todo = <<>> THEN done
    ELSE IF Head(todo) = <<".", ".">>
         THEN Normalize(IF done = <<>> THEN <<>>
                        ELSE SubSeq(done, 1, Len(done) - 1), Tail(todo))
         ELSE Normalize(Append(done, Head(todo)), Tail(todo))

\* Path(s).resolve(): the canonical absolute path, as segments
Resolve(s) == Normalize(<<>>, RawParts(s))

\* str(path) of an absolute path given as segments
RECURSIVE PathStr(_)
PathStr(segs) ==
    IF segs = <<>> THEN <<"/">>
    ELSE IF Len(segs) = 1 THEN <<"/">> \o segs[1]
    ELSE PathStr(SubSeq(segs, 1, Len(segs) - 1)) \o <<"/">> \o segs[Len(segs)]

\* PurePath.suffix
Suffix(segs) ==
    IF segs = <<>> THEN <<>>
    ELSE LET name == segs[Len(segs)]
             i    == RFindDot(name)
         IN  IF 1 < i /\ i < Len(name) THEN SubSeq(name, i, Len(name)) ELSE <<>>

\* PurePath.parent
Parent(segs) == IF segs = <<>> THEN <<>> ELSE SubSeq(segs, 1, Len(segs) - 1)

\* ------------------------------------------------------------- names
\* The modelled names abbreviate the deployment's: /w is the project root
\* (the built-in allowed path), /w/k its data/backups directory, /e/p is
\* /etc/passwd, /r is /root, "nm" is node_modules; ".py" is an allowed
\* extension, ".so" a blocked one.
Root      == << <<"w">> >>
BackupDir == << <<"w">>, <<"k">> >>

S_w     == <<"/", "w">>
S_py    == <<".", "p", "y">>
S_so    == <<".", "s", "o">>
S_md    == <<".", "m", "d">>
S_etcpw == <<"/", "e", "/", "p">>
S_root  == <<"/", "r">>
S_rootd == <<"/", "r", "/">>
S_nm    == <<"n", "m">>
S_dots  == <<".", ".">>

\* ImprovedAgentService._get_safe_allowed_paths: the built-in default set
DefaultAllowedPaths == << S_w >>

\* FileSystemConfig as ImprovedAgentService configures it
AllowedExtensions == { S_py, S_md }
BlockedExtensions == { S_so }
BlockedPatterns   == << S_etcpw, S_rootd, S_nm >>

\* --------------------------------------------------------- parameters
\* A keyword argument is absent (None), a str, or a value of another type.
None     == [kind |-> "none"]
BadType  == [kind |-> "int"]
Str(s)   == [kind |-> "str", val |-> s]
IsStr(v) == v.kind = "str"
\* Python truthiness of an argument
Truthy(v) == IF v.kind = "str" THEN v.val # <<>> ELSE v.kind # "none"

\* ---------------------------------------------- FileSystemTool policy

\* an allowlist test by the bare string prefix, without the separator
PrefixMatch(resolved, allowed_path) ==
    StartsWith(PathStr(resolved), PathStr(Resolve(allowed_path)))

\* one allowlist entry against the resolved path (file_system_tool.py 204-210)
AllowedMatch(resolved, allowed_path) ==
    LET allowed_path_resolved == Resolve(allowed_path)
    IN  \/ resolved = allowed_path_resolved
        \/ StartsWith(PathStr(resolved), PathStr(allowed_path_resolved) \o <<"/">>)

\* the allowlist loop (file_system_tool.py 200-215)
InAllowedPaths(resolved, allowed_paths) ==
    \E i \in 1..Len(allowed_paths) : AllowedMatch(resolved, allowed_paths[i])

\* the extension rule (file_system_tool.py 228-231)
ExtensionDenied(operation, resolved) ==
    /\ operation \in {"read", "write"}
    /\ Suffix(resolved) # <<>>
    /\ \/ Lower(Suffix(resolved)) \in BlockedExtensions
       \/ AllowedExtensions # {} /\ Lower(Suffix(resolved)) \notin AllowedExtensions

\* a policy without the blocked-pattern rule
NoPatternDenied(resolved) == FALSE

\* the blocked-pattern rule (file_system_tool.py 238-239)
PatternDenied(resolved) ==
    \E i \in 1..Len(BlockedPatterns) : Contains(PathStr(resolved), BlockedPatterns[i])

\* the final traversal rule, on the raw allowlist strings (file_system_tool.py 246-248)
TraversalDenied(resolved, allowed_paths) ==
    /\ \/ Contains(PathStr(resolved), S_dots)
       \/ StartsWith(PathStr(resolved), <<"/">>)
    /\ ~ \E i \in 1..Len(allowed_paths) : StartsWith(PathStr(resolved), allowed_paths[i])

\* an allowlist kept from the construction of the tool
StartupPaths(cfg) == DefaultAllowedPaths

\* `self.fs_config.allowed_paths`, read anew by every _security_check
\* (file_system_tool.py 200-202, 247-248)
PolicyPaths(cfg) == cfg.allowed_paths

\* FileSystemTool._security_check: "allow", or the reason of the ToolError
SecurityCheck(allowed_paths, operation, path) ==
    IF ~Truthy(path) THEN "path_required"
    ELSE IF ~IsStr(path) THEN "invalid_path"
    ELSE LET resolved == Resolve(path.val)
         IN  IF allowed_paths # <<>> /\ ~InAllowedPaths(resolved, allowed_paths)
                 THEN "not_allowed"
             ELSE IF ExtensionDenied(operation, resolved) THEN "extension"
             ELSE IF PatternDenied(resolved) THEN "pattern"
             ELSE IF TraversalDenied(resolved, allowed_paths) THEN "traversal"
             ELSE "allow"

\* BaseTool._security_check: out of safe mode it returns at once, in safe
\* mode it falls through its body, and neither way raises (base_tool.py 223-228)
BaseSecurityCheck(cfg) == IF ~cfg.safe_mode THEN "allow" ELSE "allow"

\* a policy whose own rules are given up out of safe mode
SkippedOutOfSafeMode(cfg, reason) == IF ~cfg.safe_mode THEN "allow" ELSE reason

\* FileSystemTool._security_check begins with super()._security_check(kwargs)
\* and goes on to its own rules once that has returned; reason is what
\* those rules decide (file_system_tool.py 185-187)
AfterSuper(cfg, reason) ==
    IF BaseSecurityCheck(cfg) # "allow" THEN BaseSecurityCheck(cfg) ELSE reason

\* `allowed_paths` as both its readers take it: None counts as the empty
\* list (`if self.fs_config.allowed_paths`, `allowed_paths or []`;
\* file_system_tool.py 200, 248)
OrEmpty(v) == IF v.kind = "none" THEN <<>> ELSE v.val

\* ----------------------------------------------------- the file system
\* fs maps the canonical path (segments) of every existing entry to its
\* node; the root directory always exists.  mtime is st_mtime in seconds.
DirNode(t)      == [kind |-> "dir", mtime |-> t]
FileNode(c, t)  == [kind |-> "file", content |-> c, mtime |-> t]

IsDir(f, p)  == p \in DOMAIN f /\ f[p].kind = "dir"
IsFile(f, p) == p \in DOMAIN f /\ f[p].kind = "file"

\* a directory's mtime changes when an entry is added to or removed from it
Touch(f, d, t) == IF IsDir(f, d) THEN [f EXCEPT ![d].mtime = t] ELSE f

Put(f, p, node) == [q \in DOMAIN f \cup {p} |-> IF q = p THEN node ELSE f[q]]

\* create or overwrite the entry at p
Create(f, p, node, t) ==
    IF p \in DOMAIN f THEN Put(f, p, node) ELSE Touch(Put(f, p, node), Parent(p), t)

IsPrefix(p, q) == Len(p) <= Len(q) /\ SubSeq(q, 1, Len(p)) = p

\* p and everything below it
Subtree(f, p) == {q \in DOMAIN f : IsPrefix(p, q)}

\* how the OS walks the segments of a raw path: every segment passed
\* through must be an existing directory, ".." goes to the physical parent
RECURSIVE Walk(_, _, _)
Walk(f, cur, todo) ==
    IF todo = <<>> THEN [err |-> "ok", at |-> cur]
    ELSE IF cur \notin DOMAIN f THEN [err |-> "ENOENT", at |-> cur]
    ELSE IF ~IsDir(f, cur) THEN [err |-> "ENOTDIR", at |-> cur]
    ELSE IF Head(todo) = S_dots THEN Walk(f, Parent(cur), Tail(todo))
    ELSE Walk(f, Append(cur, Head(todo)), Tail(todo))

Stat(f, parts) == Walk(f, <<>>, parts)

\* a local name of the code: In is evaluated with the value v bound
Let(v, In(_)) == In(v)

\* Path.exists()
Exists(f, parts) == Let(Stat(f, parts), LAMBDA r : r.err = "ok" /\ r.at \in DOMAIN f)

\* os.mkdir(path)
Mkdir1(f, parts, t) ==
    Let(Stat(f, parts), LAMBDA r :
        IF r.err # "ok" THEN [fs |-> f, err |-> r.err]
        ELSE IF r.at \in DOMAIN f THEN [fs |-> f, err |-> "EEXIST"]
        ELSE IF ~IsDir(f, Parent(r.at)) THEN [fs |-> f, err |-> "ENOENT"]
        ELSE [fs |-> Create(f, r.at, DirNode(t), t), err |-> "ok"])

\* the exist_ok=True of Path.mkdir: EEXIST on a directory is no error
ExistOk(r, parts) ==
    IF r.err = "EEXIST" /\ IsDir(r.fs, Stat(r.fs, parts).at)
    THEN [fs |-> r.fs, err |-> "ok"] ELSE r

\* Path.mkdir(parents=True, exist_ok=True): the missing parents are made
\* along the raw segments, outermost first (pathlib.Path.mkdir)
RECURSIVE MkdirParents(_, _, _)
MkdirParents(f, parts, t) ==
    Let(Mkdir1(f, parts, t), LAMBDA one :
        IF one.err = "ENOENT" /\ parts # <<>>
        THEN Let(MkdirParents(f, Parent(parts), t), LAMBDA up :
                 IF up.err # "ok" THEN up
                 ELSE ExistOk(Mkdir1(up.fs, parts, t), parts))
        ELSE ExistOk(one, parts))

\* open(path, "w") + write + close: the parent must exist
WriteAt(f, parts, c, t) ==
    Let(Stat(f, parts), LAMBDA r :
        IF r.err # "ok" THEN [fs |-> f, err |-> r.err]
        ELSE IF IsDir(f, r.at) THEN [fs |-> f, err |-> "EISDIR"]
        ELSE IF ~IsDir(f, Parent(r.at)) THEN [fs |-> f, err |-> "ENOENT"]
        ELSE [fs |-> Create(f, r.at, FileNode(c, t), t), err |-> "ok"])

\* shutil.rmtree / Path.unlink of an existing entry
Remove(f, at, t) == Touch([q \in DOMAIN f \ Subtree(f, at) |-> f[q]], Parent(at), t)

\* the entry q of the tree at src, moved below dst
Rebase(src, dst, q) == dst \o SubSeq(q, Len(src) + 1, Len(q))

\* f with the tree at src laid over dst, nodes (content, mtime) kept
Overlay(f, g, src, dst) ==
    LET from == Subtree(f, src)
    IN  [q \in DOMAIN g \cup {Rebase(src, dst, x) : x \in from} |->
            IF \E x \in from : Rebase(src, dst, x) = q
            THEN f[CHOOSE x \in from : Rebase(src, dst, x) = q]
            ELSE g[q]]

\* shutil.copy2(src, dst) onto the entry `to`; content and mtime are copied
Copy2To(f, src, to, t) ==
    IF to = src THEN [fs |-> f, err |-> "ESAME"]
    ELSE IF IsDir(f, to) THEN [fs |-> f, err |-> "EISDIR"]
    ELSE IF ~IsDir(f, Parent(to)) THEN [fs |-> f, err |-> "ENOENT"]
    ELSE [fs |-> Create(f, to, f[src], t), err |-> "ok"]

\* shutil.copy2(src, dst): into dst/basename when dst is a directory
Copy2(f, src, name, dstparts, t) ==
    Let(Stat(f, dstparts), LAMBDA d :
        IF d.err # "ok" THEN [fs |-> f, err |-> d.err]
        ELSE Copy2To(f, src, IF IsDir(f, d.at) THEN Append(d.at, name) ELSE d.at, t))

\* the copying of shutil.copytree once os.makedirs(dst) has made `to`
CopyTreeTo(f, made, src, to) ==
    IF made.err # "ok" THEN made
    ELSE IF \E q \in Subtree(f, src) :
               /\ Rebase(src, to, q) \in DOMAIN made.fs
               /\ made.fs[Rebase(src, to, q)].kind # f[q].kind
         THEN [fs |-> made.fs, err |-> "EEXIST"]
    ELSE [fs |-> Overlay(f, made.fs, src, to), err |-> "ok"]

\* shutil.copytree(src, dst, dirs_exist_ok): os.makedirs(dst), then every
\* entry below src is copied below dst with its metadata
CopyTree(f, src, dstparts, dirs_exist_ok, t) ==
    Let(Stat(f, dstparts), LAMBDA d :
        IF d.err = "ok" /\ d.at \in DOMAIN f /\ (~dirs_exist_ok \/ ~IsDir(f, d.at))
            THEN [fs |-> f, err |-> "EEXIST"]
        ELSE IF d.err = "ok" /\ IsPrefix(src, d.at)
            THEN [fs |-> f, err |-> "EINVAL"]
        ELSE Let(MkdirParents(f, dstparts, t), LAMBDA made :
                 CopyTreeTo(f, made, src, Stat(made.fs, dstparts).at)))

\* os.rename(src, to)
MoveTo(f, src, to, t) ==
    IF to = src THEN [fs |-> f, err |-> "ok"]
    ELSE IF IsPrefix(src, to) THEN [fs |-> f, err |-> "EINVAL"]
    ELSE IF ~IsDir(f, Parent(to)) THEN [fs |-> f, err |-> "ENOENT"]
    ELSE IF IsDir(f, src) /\ to \in DOMAIN f THEN [fs |-> f, err |-> "ENOTDIR"]
    ELSE LET kept == [q \in DOMAIN f \ (Subtree(f, src) \cup Subtree(f, to)) |-> f[q]]
         IN  [fs |-> Touch(Touch(Overlay(f, kept, src, to), Parent(src), t), Parent(to), t),
              err |-> "ok"]

\* shutil.move(src, dst): os.rename, into dst/basename when dst is a directory
Move(f, src, name, dstparts, t) ==
    Let(Stat(f, dstparts), LAMBDA d :
        IF d.err # "ok" THEN [fs |-> f, err |-> d.err]
        ELSE IF IsDir(f, d.at) /\ d.at # src
             THEN IF Append(d.at, name) \in DOMAIN f
                  THEN [fs |-> f, err |-> "EEXIST"]
                  ELSE MoveTo(f, src, Append(d.at, name), t)
        ELSE MoveTo(f, src, d.at, t))

\* ------------------------------------------- FileSystemTool operations
\* Every operation gets the keyword arguments kw = [operation, path,
\* destination, content], the file system f and the clock t, and yields
\* [fs, out, value]: out is "ok" (a payload is returned), "ToolError" or
\* "Exception" (any other exception class).

Digits == <<"0", "1", "2", "3", "4", "5", "6", "7", "8", "9">>
\* datetime.now().strftime("%Y%m%d_%H%M%S"): one stamp per second
Timestamp(t) == << Digits[(t % 10) + 1] >>

\* Path(path).name
Name(path) == Let(Parts(path), LAMBDA ps : IF ps = <<>> THEN <<>> ELSE ps[Len(ps)])

\* the dict an operation returns: what stands for its "operation", and the
\* "content" and "size" of a read, the "size" of a write
Payload(op, content, size) == [operation |-> op, content |-> content, size |-> size]
NoPayload == Payload("none", <<>>, 0)

Ok(f, v)        == [fs |-> f, out |-> "ok", value |-> Payload(v, <<>>, 0)]
Raise(f, class) == [fs |-> f, out |-> class, value |-> NoPayload]
\* the return of _read_file and of _write_file
OkText(f, op, content, size) == [fs |-> f, out |-> "ok", value |-> Payload(op, content, size)]

\* str.encode("utf-8"), the bytes by their hexadecimal names where the
\* character is not ASCII
Utf8(ch) == IF ch = "é" THEN <<"C3", "A9">> ELSE <<ch>>
RECURSIVE Encode(_)
Encode(text) == IF text = <<>> THEN <<>> ELSE Utf8(Head(text)) \o Encode(Tail(text))

\* bytes.decode("utf-8") of bytes that Encode produced
RECURSIVE Decode(_)
Decode(bytes) ==
    IF bytes = <<>> THEN <<>>
    ELSE IF Len(bytes) >= 2 /\ SubSeq(bytes, 1, 2) = <<"C3", "A9">>
    THEN <<"é">> \o Decode(SubSeq(bytes, 3, Len(bytes)))
    ELSE <<Head(bytes)>> \o Decode(Tail(bytes))

\* a text file read with newline=None: "\r\n" and "\r" become "\n"
RECURSIVE UniversalNewlines(_)
UniversalNewlines(text) ==
    IF text = <<>> THEN <<>>
    ELSE IF Head(text) = "\r"
    THEN <<"\n">> \o UniversalNewlines(IF Len(text) >= 2 /\ text[2] = "\n"
                                        THEN Tail(Tail(text)) ELSE Tail(text))
    ELSE <<Head(text)>> \o UniversalNewlines(Tail(text))

\* open(path, mode="r", encoding="utf-8").read()
ReadText(bytes) == UniversalNewlines(Decode(bytes))

\* open(path, mode="w", encoding="utf-8").write(text) on a POSIX host, where
\* "\n" is written as it is
WriteText(text) == Encode(text)

\* the outcome of an operation whose last file-system call yielded r
Outcome(r, class, v) == IF r.err # "ok" THEN Raise(r.fs, class) ELSE Ok(r.fs, v)

\* FileSystemTool._backup_file
BackupFile(f, kw, t) ==
    Let(Stat(f, RawParts(kw.path.val)), LAMBDA s :
        IF s.err # "ok" \/ s.at \notin DOMAIN f THEN Raise(f, "ToolError")
        ELSE Let(Append(BackupDir, Name(kw.path.val) \o <<"_">> \o Timestamp(t)),
                 LAMBDA backup_file_path :
                     Outcome(IF IsFile(f, s.at)
                          THEN Copy2(f, s.at, Name(kw.path.val), backup_file_path, t)
                          ELSE CopyTree(f, s.at, backup_file_path, FALSE, t),
                          "ToolError", "backup")))

\* FileSystemTool._read_file
ReadFile(f, kw, t) ==
    Let(Stat(f, RawParts(kw.path.val)), LAMBDA s :
        IF s.err # "ok" \/ s.at \notin DOMAIN f THEN Raise(f, "ToolError")
        ELSE IF ~IsFile(f, s.at) THEN Raise(f, "ToolError")
        ELSE OkText(f, "read", ReadText(f[s.at].content), Len(f[s.at].content)))

\* open(path, "w") truncates before a non-str content makes f.write raise;
\* the size returned is st_size of the file written
WriteContent(w, content) ==
    IF w.err # "ok" \/ ~IsStr(content) THEN Raise(w.fs, "ToolError")
    ELSE OkText(w.fs, "written", <<>>, Len(WriteText(content.val)))

\* FileSystemTool._write_file after the backup b: parent.mkdir is outside
\* the try block, the open and the write are inside
WriteAfterBackup(b, parts, content, t) ==
    IF b.out # "ok" THEN b
    ELSE Let(MkdirParents(b.fs, Parent(parts), t), LAMBDA m :
             IF m.err # "ok" THEN Raise(m.fs, "Exception")
             ELSE WriteContent(WriteAt(m.fs, parts,
                                       IF IsStr(content) THEN WriteText(content.val) ELSE <<>>, t),
                               content))

\* FileSystemTool._write_file.  A missing content argument is a TypeError of
\* the call.
WriteFile(f, kw, enable_backup, t) ==
    IF kw.content.kind = "none" THEN Raise(f, "Exception")
    ELSE Let(RawParts(kw.path.val), LAMBDA parts :
             WriteAfterBackup(IF Exists(f, parts) /\ enable_backup
                              THEN BackupFile(f, kw, t) ELSE Ok(f, "none"),
                              parts, kw.content, t))

\* the copy of a file in FileSystemTool._copy_item, its parent made (m)
CopyFileAfterMkdir(m, src, name, dst, t) ==
    IF m.err # "ok" THEN Raise(m.fs, "ToolError")
    ELSE Outcome(Copy2(m.fs, src, name, dst, t), "ToolError", "file_copy")

\* FileSystemTool._copy_item
CopyItem(f, kw, t) ==
    IF ~IsStr(kw.destination) THEN Raise(f, "Exception")
    ELSE Let(Stat(f, RawParts(kw.path.val)), LAMBDA s :
        IF s.err # "ok" \/ s.at \notin DOMAIN f THEN Raise(f, "ToolError")
        ELSE Let(RawParts(kw.destination.val), LAMBDA dst :
                 IF IsFile(f, s.at)
                 THEN CopyFileAfterMkdir(MkdirParents(f, Parent(dst), t),
                                         s.at, Name(kw.path.val), dst, t)
                 ELSE Outcome(CopyTree(f, s.at, dst, TRUE, t), "ToolError", "directory_copy")))

\* the shutil.move of FileSystemTool._move_item, its parent made (m)
MoveAfterMkdir(m, src, name, dst, t) ==
    IF m.err # "ok" THEN Raise(m.fs, "ToolError")
    ELSE Outcome(Move(m.fs, src, name, dst, t), "ToolError", "move")

\* FileSystemTool._move_item
MoveItem(f, kw, t) ==
    IF ~IsStr(kw.destination) THEN Raise(f, "Exception")
    ELSE Let(Stat(f, RawParts(kw.path.val)), LAMBDA s :
        IF s.err # "ok" \/ s.at \notin DOMAIN f THEN Raise(f, "ToolError")
        ELSE Let(RawParts(kw.destination.val), LAMBDA dst :
                 MoveAfterMkdir(MkdirParents(f, Parent(dst), t),
                                s.at, Name(kw.path.val), dst, t)))

\* the removal of FileSystemTool._delete_item after the backup b
DeleteAfterBackup(b, at, t) ==
    IF b.out # "ok" THEN b
    ELSE IF at = <<>> THEN Raise(b.fs, "ToolError")
    ELSE Ok(Remove(b.fs, at, t), "delete")

\* FileSystemTool._delete_item
DeleteItem(f, kw, enable_backup, t) ==
    Let(Stat(f, RawParts(kw.path.val)), LAMBDA s :
        IF s.err # "ok" \/ s.at \notin DOMAIN f THEN Raise(f, "ToolError")
        ELSE DeleteAfterBackup(IF enable_backup THEN BackupFile(f, kw, t) ELSE Ok(f, "none"),
                               s.at, t))

\* FileSystemTool._create_directory
CreateDirectory(f, kw, t) ==
    Outcome(MkdirParents(f, RawParts(kw.path.val), t), "ToolError", "mkdir")

\* FileSystemTool._get_file_info
GetFileInfo(f, kw, t) ==
    Let(Stat(f, RawParts(kw.path.val)), LAMBDA s :
        IF s.err # "ok" \/ s.at \notin DOMAIN f THEN Raise(f, "ToolError")
        ELSE Ok(f, f[s.at].kind))

\* the backups that glob(f"{name}_*") finds in the backup directory
BackupsOf(f, name) ==
    {q \in DOMAIN f : /\ Len(q) = Len(BackupDir) + 1
                      /\ Parent(q) = BackupDir
                      /\ StartsWith(q[Len(q)], name \o <<"_">>)}

\* max(backups, key=st_mtime): any backup of the greatest mtime
LatestBackups(f, name) ==
    Let(BackupsOf(f, name), LAMBDA backups :
        {q \in backups : \A o \in backups : f[o].mtime <= f[q].mtime})

\* the restore of a directory backup: shutil.rmtree(path) if it exists,
\* then shutil.copytree(latest_backup, path)
RestoreTree(f, s, chosen, parts, t) ==
    IF s.err = "ok" /\ s.at \in DOMAIN f
    THEN IF ~IsDir(f, s.at) \/ s.at = <<>> THEN Raise(f, "ToolError")
         ELSE Outcome(CopyTree(Remove(f, s.at, t), chosen, parts, FALSE, t),
                   "ToolError", "directory_restore")
    ELSE Outcome(CopyTree(f, chosen, parts, FALSE, t), "ToolError", "directory_restore")

\* FileSystemTool._restore_file with no backup_name, restoring from the
\* backup `chosen` of LatestBackups
RestoreFrom(f, kw, chosen, t) ==
    Let(RawParts(kw.path.val), LAMBDA parts :
        IF IsFile(f, chosen)
        THEN Outcome(Copy2(f, chosen, chosen[Len(chosen)], parts, t), "ToolError", "file_restore")
        ELSE RestoreTree(f, Stat(f, parts), chosen, parts, t))

\* FileSystemTool._restore_file: the set of possible outcomes
RestoreFile(f, kw, t) ==
    Let(LatestBackups(f, Name(kw.path.val)), LAMBDA latest :
        IF latest = {} THEN { Raise(f, "ToolError") }
        ELSE { RestoreFrom(f, kw, b, t) : b \in latest })

\* the dict _list_directory and _search_files return: "items" or
\* "matches" as the set of the paths found, and their "count"
Listing(op, items) ==
    [operation |-> op, content |-> <<>>, size |-> Cardinality(items), items |-> items]

\* PurePath.match of a name against a pattern "*suffix" or a literal name
Fnmatch(name, pattern) ==
    IF pattern # <<>> /\ pattern[1] = "*"
    THEN /\ Len(name) >= Len(pattern) - 1
         /\ SubSeq(name, Len(name) - Len(pattern) + 2, Len(name)) = Tail(pattern)
    ELSE name = pattern

\* dir_path.iterdir(): the entries of the directory
Iterdir(f, at) == { q \in DOMAIN f : q # at /\ Parent(q) = at /\ Len(q) = Len(at) + 1 }

\* dir_path.rglob(pattern): every entry below the directory, at any depth,
\* whose name matches
Rglob(f, at, pattern) ==
    { q \in Subtree(f, at) : q # at /\ Fnmatch(q[Len(q)], pattern) }

\* FileSystemTool._list_directory
ListDirectory(f, kw, t) ==
    Let(Stat(f, RawParts(kw.path.val)), LAMBDA s :
        IF s.err # "ok" \/ s.at \notin DOMAIN f THEN Raise(f, "ToolError")
        ELSE IF ~IsDir(f, s.at) THEN Raise(f, "ToolError")
        ELSE [fs |-> f, out |-> "ok",
              value |-> Listing("list", IF kw.recursive THEN Rglob(f, s.at, <<"*">>)
                                        ELSE Iterdir(f, s.at))])

\* FileSystemTool._search_files: the files among the entries that match
SearchFiles(f, kw, t) ==
    Let(Stat(f, RawParts(kw.path.val)), LAMBDA s :
        IF s.err # "ok" \/ s.at \notin DOMAIN f THEN Raise(f, "ToolError")
        ELSE [fs |-> f, out |-> "ok",
              value |-> Listing("search",
                  { q \in (IF kw.recursive THEN Rglob(f, s.at, kw.pattern)
                           ELSE { i \in Iterdir(f, s.at) : Fnmatch(i[Len(i)], kw.pattern) }) :
                      IsFile(f, q) })])

\* FileSystemTool._execute: the dispatch on the operation name.  The
\* operations that only read (hash, watch, stop_watch and permissions
\* without a mode) are represented by info.
FsExecute(f, kw, enable_backup, t) ==
    CASE kw.operation = "read"    -> { ReadFile(f, kw, t) }
      [] kw.operation = "write"   -> { WriteFile(f, kw, enable_backup, t) }
      [] kw.operation = "copy"    -> { CopyItem(f, kw, t) }
      [] kw.operation = "move"    -> { MoveItem(f, kw, t) }
      [] kw.operation = "delete"  -> { DeleteItem(f, kw, enable_backup, t) }
      [] kw.operation = "info"    -> { GetFileInfo(f, kw, t) }
      [] kw.operation = "mkdir"   -> { CreateDirectory(f, kw, t) }
      [] kw.operation = "backup"  -> { BackupFile(f, kw, t) }
      [] kw.operation = "restore" -> RestoreFile(f, kw, t)
      [] kw.operation = "list"    -> { ListDirectory(f, kw, t) }
      [] kw.operation = "search"  -> { SearchFiles(f, kw, t) }
      [] OTHER                    -> { Raise(f, "ToolError") }

\* ------------------------------------------------------ ToolResult
\* ToolResult(success, result, error, execution_time): error is "" for None;
\* zero_time says execution_time is the literal 0.0.
\* a failed ToolResult that carries no error string
FailureBare(e) == [success |-> FALSE, result |-> NoPayload, error |-> "", zero_time |-> FALSE]

Success(v)    == [success |-> TRUE,  result |-> v,      error |-> "",  zero_time |-> FALSE]
Failure(e)    == [success |-> FALSE, result |-> NoPayload, error |-> e, zero_time |-> FALSE]
FailureAt0(e) == [success |-> FALSE, result |-> NoPayload, error |-> e, zero_time |-> TRUE]
NoResult      == [success |-> FALSE, result |-> NoPayload, error |-> "no call yet", zero_time |-> TRUE]

\* ------------------------------------------------------------ state
VARIABLES
    fs,          \* the host's file system
    now,         \* the wall clock, in seconds
    fs_config,   \* FileSystemTool.fs_config: [enabled, allowed_paths, enable_backup,
                 \* safe_mode]
    stats,       \* BaseTool counters: [execution_count, success_count, error_count,
                 \*                     total_execution_time]
    last,        \* the latest execute() call made under the current configuration
    eng,         \* one BaseTool.execute call, step by step
    lp,          \* one ImprovedAgentService.agent_chat_with_tools call
    admin,       \* history: the latest completed call of the permission API,
                 \* [op, path], in the behaviours that keep it
    web,         \* the web_search tool: its configuration, calls and requests
    svc,         \* ImprovedAgentService: active_sessions, the AgentSession
                 \* objects and the execute_tool calls in flight
    bk           \* history: what the successful writes and deletes of existing
                 \* targets found there, in the behaviours that keep it

vars   == <<fs, now, fs_config, stats, last, eng, lp, admin, web, svc, bk>>

\* ------------------------------------------------------------ bounds
\* execute() calls per behaviour
MaxCalls == 2

\* -------------------------------------------------------- the inputs
P_a     == <<"/", "w", "/", "a", ".", "p", "y">>
P_up_e  == <<"/", "w", "/", ".", ".", "/", "e", "/", "p">>
P_wx    == <<"/", "w", "x", "/", "a", ".", "p", "y">>
P_e_p   == <<"/", "e", "/", "p">>
P_n_b   == <<"/", "w", "/", ".", ".", "/", "n", "/", ".", ".", "/", "w", "/", "b", ".", "p", "y">>
P_d     == <<"/", "w", "/", "d">>
P_b     == <<"/", "w", "/", "b", ".", "p", "y">>
P_e_q   == <<"/", "e", "/", "q">>
P_x_y_c == <<"/", "x", "/", "y", "/", "c">>
P_f     == <<"/", "w", "/", "f">>

PathInputs == { Str(P_a), Str(P_up_e), Str(P_wx), Str(P_n_b), Str(P_d), BadType }
SourceInputs      == { Str(P_a), Str(P_d) }
DestinationInputs == { Str(P_b), Str(P_e_q), Str(P_x_y_c) }
T_c1 == <<"c", "1">>
T_c2 == <<"c", "2">>
ContentInputs     == { Str(T_c2) }

Kw(op, p, d, c) == [operation |-> op, path |-> p, destination |-> d, content |-> c]

Requests ==
    { Kw(op, p, None, None) :
        op \in {"read", "delete", "mkdir", "restore"}, p \in PathInputs }
    \cup { Kw("write", p, None, c) : p \in PathInputs, c \in ContentInputs }
    \cup { Kw(op, p, d, None) :
            op \in {"copy", "move"}, p \in SourceInputs, d \in DestinationInputs }

\* the paths an administrator submits to add-path / remove-path
AdminInputs == { <<"/", "w", "/", ".", ".", "/", "e">>, S_root, S_w }

\* writes, deletes and restores with backups: /w/a.py, /w/d/a.py of the
\* same base name, the directory /w/d
P_d_a == <<"/", "w", "/", "d", "/", "a", ".", "p", "y">>
BackupRequests ==
    { Kw("write", Str(p), None, c) : p \in { P_a, P_d_a }, c \in ContentInputs }
    \cup { Kw("delete", Str(p), None, None) : p \in { P_a, P_d } }
    \cup { Kw("restore", Str(p), None, None) : p \in { P_a, P_d_a, P_d } }
\* calls and seconds of a behaviour of these
MaxBackupCalls == 3
MaxBackupClock == 2

\* texts written and read back: plain, with a carriage return and line
\* feed, with a character of two bytes
TextInputs == { <<"h", "i">>, <<"a", "\r", "\n", "b">>, <<"é">> }
TextRequests ==
    { Kw("write", Str(p), None, Str(c)) : p \in { P_a, P_b }, c \in TextInputs }
    \cup { Kw("read", Str(p), None, None) : p \in { P_a, P_b } }
\* calls of a behaviour of these
MaxTextCalls == 3

\* the allowed_paths a FileSystemConfig is given: /w and /w/d, each spelled
\* in canonical form, with a trailing separator, and relative to the
\* working directory /w (agent_service_backup.py configures relative ones)
AllowlistInputs ==
    { << S_w >>, << <<"/", "w", "/">> >>, << <<".">> >>,
      << P_d >>, << <<"/", "w", "/", "d", "/">> >>, << <<"d">> >> }

\* the calls made under each of them
SpellingRequests ==
    { Kw(op, Str(p), None, None) :
        op \in {"read", "info"}, p \in { P_a, P_d_a, S_w, P_d, P_wx } }
\* calls of a behaviour of these
MaxSpellingCalls == 2

\* FileSystemConfig.max_directory_depth
MaxDirectoryDepth == 10

\* the keyword arguments of list and search: recursive and pattern
KwList(op, p, recursive, pattern) ==
    [operation |-> op, path |-> p, destination |-> None, content |-> None,
     recursive |-> recursive, pattern |-> pattern]

\* allowed_paths of a FileSystemConfig: None, [] or the default roots
ClosedAllowlists == { None, [kind |-> "list", val |-> <<>>],
                      [kind |-> "list", val |-> DefaultAllowedPaths] }

\* every operation of the tool, on absolute paths and on a relative one
ClosedPaths == { P_a, P_d_a, S_w, P_d, P_wx, P_up_e, P_x_y_c, <<"d">> }
ClosedRequests ==
    { Kw(op, Str(p), None, None) :
        op \in {"read", "delete", "info", "mkdir", "backup", "restore"}, p \in ClosedPaths }
    \cup { Kw("write", Str(p), None, Str(T_c1)) : p \in ClosedPaths }
    \cup { Kw(op, Str(p), Str(P_f), None) : op \in {"copy", "move"}, p \in ClosedPaths }
    \cup { KwList(op, Str(p), FALSE, <<"*">>) : op \in {"list", "search"}, p \in ClosedPaths }
\* calls of a behaviour of these
MaxClosedCalls == 2

\* the directory n levels below /w/d: /w/d/n/n/.../n
RECURSIVE Below(_, _)
Below(path, n) == IF n = 0 THEN path ELSE Below(path, n - 1) \o <<"/", "n">>

\* directories made 1, 2, max_directory_depth and max_directory_depth + 1
\* levels below /w/d, a file written into /w/d, and /w/d listed and searched
DepthRequests ==
    { Kw("mkdir", Str(Below(P_d, n)), None, None) :
        n \in { 1, 2, MaxDirectoryDepth, MaxDirectoryDepth + 1 } }
    \cup { Kw("write", Str(P_d_a), None, Str(T_c2)) }
    \cup { KwList("list", Str(P_d), r, <<>>) : r \in BOOLEAN }
    \cup { KwList("search", Str(P_d), r, pat) :
             r \in BOOLEAN, pat \in { <<"*">>, <<"*", ".", "p", "y">> } }
\* calls of a behaviour of these
MaxDepthCalls == 3

\* the same with /w/d, a directory below the built-in allowed path, and the
\* calls made between the calls of the permission API, a write whose
\* content is no string among them
PermissionInputs   == AdminInputs \cup { P_d }
PermissionRequests ==
    { Kw(op, p, None, None) : op \in {"read", "info"}, p \in PathInputs }
    \cup { Kw("write", p, None, c) :
            p \in PathInputs \cup { Str(P_f) }, c \in ContentInputs \cup { BadType } }

InitialFs ==
    LET dirs  == { <<>>, Root, BackupDir, << <<"w">>, <<"d">> >>, << <<"e">> >>, << <<"w", "x">> >> }
        files == { Resolve(P_a), Resolve(P_e_p), Resolve(P_wx) }
    IN  [q \in dirs \cup files |-> IF q \in dirs THEN DirNode(0) ELSE FileNode(WriteText(T_c1), 0)]

\* ------------------------------------------------- BaseTool.execute
\* BaseTool._validate_parameters: a stub that accepts everything
ValidateParameters(kw) == "ok"

\* the error string of a ToolError raised by _security_check
DenialError(reason) ==
    CASE reason = "path_required" -> "Path is required"
      [] reason = "invalid_path"  -> "Invalid path"
      [] reason = "not_allowed"   -> "Path not in allowed directories"
      [] reason = "extension"     -> "File extension not allowed"
      [] reason = "pattern"       -> "Path contains blocked pattern"
      [] reason = "traversal"     -> "Directory traversal detected"
      [] OTHER                    -> "ToolError"

\* an engine without the enabled test
NeverDisabled(cfg) == FALSE

\* `if not self.config.enabled` (base_tool.py 106)
IsDisabled(cfg) == ~cfg.enabled

\* the except clauses without the final `except Exception`
CaughtByName(class) == class \in {"TimeoutError", "ToolError"}

\* the except clauses of execute(): the exception classes they catch
Caught(class) == class \in {"TimeoutError", "ToolError", "Exception"}

\* the ToolResult an except clause of execute() returns
ExceptResult(class, message) ==
    CASE class = "TimeoutError" -> Failure("Tool execution timed out")
      [] class = "ToolError"    -> Failure(message)
      [] OTHER                  -> Failure("Unexpected error")

\* one outcome of execute(): the file system it leaves, its ToolResult,
\* whether _security_check and _execute ran, the counter it incremented
Outcome1(f, res, checked, ran, counted) ==
    [fs |-> f, result |-> res, checked |-> checked, ran |-> ran, counted |-> counted]

\* execute() once _security_check has passed: _execute runs to its end
RunOutcomes(cfg, f, t, kw) ==
    { Outcome1(r.fs,
               IF r.out = "ok" THEN Success(r.value) ELSE ExceptResult(r.out, "ToolError"),
               TRUE, TRUE,
               IF r.out = "ok" THEN "success_count" ELSE "error_count") :
        r \in FsExecute(f, kw, cfg.enable_backup, t) }

\* BaseTool.execute on the file_system tool, when the work beats the
\* timeout: the set of its possible outcomes (base_tool.py 96-198)
ExecuteOutcomes(cfg, f, t, kw) ==
    IF IsDisabled(cfg)
    THEN { Outcome1(f, FailureAt0("Tool file_system is disabled"), FALSE, FALSE, "none") }
    ELSE IF ValidateParameters(kw) # "ok"
    THEN { Outcome1(f, ExceptResult("ToolError", "validation"), FALSE, FALSE, "error_count") }
    ELSE Let(AfterSuper(cfg, SecurityCheck(PolicyPaths(cfg), kw.operation, kw.path)),
             LAMBDA reason :
             IF reason # "allow"
             THEN { Outcome1(f, ExceptResult("ToolError", DenialError(reason)),
                             TRUE, FALSE, "error_count") }
             ELSE RunOutcomes(cfg, f, t, kw))

\* the counters after a call: execution_count is incremented whenever the
\* tool is enabled (base_tool.py 114)
Counted(st, counted) ==
    IF counted = "none" THEN st
    ELSE [st EXCEPT !.execution_count = @ + 1, ![counted] = @ + 1]

\* the record kept of one execute() call: its arguments, its ToolResult,
\* whether _security_check and _execute ran
CallRecord(kw, res, checked, ran) ==
    [kw |-> kw, result |-> res, checked |-> checked, ran |-> ran]

NoCall == CallRecord(Kw("none", None, None, None), NoResult, FALSE, FALSE)

\* what lies at the entry `at` of f: the kind and content of every entry
\* from there down, by its path below `at`
Snapshot(f, at) ==
    { [rel |-> SubSeq(q, Len(at) + 1, Len(q)), kind |-> f[q].kind,
       content |-> IF IsFile(f, q) THEN f[q].content ELSE <<>>] : q \in Subtree(f, at) }

\* history: a write or delete that succeeded on an existing target, with
\* enable_backup set, is noted with the target and what it held before
Noted(h, cfg, f, kw, res) ==
    IF /\ cfg.enable_backup /\ res.success
       /\ kw.operation \in {"write", "delete"}
       /\ IsStr(kw.path) /\ Exists(f, RawParts(kw.path.val))
    THEN Append(h, [source |-> Resolve(kw.path.val),
                    snapshot |-> Snapshot(f, Stat(f, RawParts(kw.path.val)).at)])
    ELSE h

\* one call of BaseTool.execute on the file_system tool, of at most limit
\* counted calls; keep says whether the history variable notes it
Execute(kw, limit, keep) ==
    /\ IsDisabled(fs_config) \/ stats.execution_count < limit
    /\ \E o \in ExecuteOutcomes(fs_config, fs, now, kw) :
        /\ fs' = o.fs
        /\ stats' = Counted(stats, o.counted)
        /\ last' = CallRecord(kw, o.result, o.checked, o.ran)
        /\ bk' = IF keep THEN Noted(bk, fs_config, fs, kw, o.result) ELSE bk
    /\ UNCHANGED <<svc, admin, web, now, fs_config, eng, lp>>

\* FileSystemTool(FileSystemConfig(allowed_paths=...)): a tool constructed
\* with the allowlist as its configuration spells it; its counters start
\* at zero (file_system_tool.py 86-88)
NewFileSystemTool(allowed_paths) ==
    /\ fs_config.allowed_paths # allowed_paths
    /\ fs_config' = [fs_config EXCEPT !.allowed_paths = allowed_paths]
    /\ stats' = [execution_count |-> 0, success_count |-> 0, error_count |-> 0,
                 total_execution_time |-> 0]
    /\ last' = NoCall
    /\ UNCHANGED <<bk, svc, admin, web, fs, now, eng, lp>>

\* FileSystemTool(FileSystemConfig(allowed_paths=..., safe_mode=...)): the
\* allowlist is None or a list; the tool is configured before its first
\* call (base_tool.py 34-41, file_system_tool.py 86-88)
ConfiguredFileSystemTool(allowed_paths, safe_mode) ==
    /\ stats.execution_count = 0
    /\ fs_config.allowed_paths # OrEmpty(allowed_paths) \/ fs_config.safe_mode # safe_mode
    /\ fs_config' = [fs_config EXCEPT !.allowed_paths = OrEmpty(allowed_paths),
                                      !.safe_mode = safe_mode]
    /\ stats' = [execution_count |-> 0, success_count |-> 0, error_count |-> 0,
                 total_execution_time |-> 0]
    /\ last' = NoCall
    /\ UNCHANGED <<bk, svc, admin, web, fs, now, eng, lp>>

\* ----------------------------------------- the permission-management API
\* the system paths add-path refuses, as substrings of the resolved path
DangerousPatterns == { S_etcpw, S_root }

\* a completed call of the permission API that changed the allowlist
AdminCall(op, path_str) == [op |-> op, path |-> path_str]
NoAdminCall == AdminCall("none", <<>>)

\* POST /api/permissions/add-path; keep says whether the history variable
\* records the call
AddAllowedPath(path, keep) ==
    LET path_str == PathStr(Resolve(path))
        current  == fs_config.allowed_paths
    IN  /\ ~ \E d \in DangerousPatterns : Contains(path_str, d)
        /\ ~ \E i \in 1..Len(current) : current[i] = path_str \/ current[i] = path
        /\ fs_config' = [fs_config EXCEPT !.allowed_paths = Append(current, path_str)]
        /\ last' = NoCall
        /\ admin' = IF keep THEN AdminCall("add-path", path_str) ELSE admin
        /\ UNCHANGED <<bk, svc, web, fs, now, stats, eng, lp>>

\* a remove-path that takes no path for a default one
NoDefaultPath(path, path_str) == FALSE

\* `if path in default_paths or path_str in default_paths` (permissions.py 260-262)
IsDefaultPath(path, path_str) ==
    \E i \in 1..Len(DefaultAllowedPaths) :
        DefaultAllowedPaths[i] = path \/ DefaultAllowedPaths[i] = path_str

\* DELETE /api/permissions/remove-path
RemoveAllowedPath(path, keep) ==
    LET path_str == PathStr(Resolve(path))
        current  == fs_config.allowed_paths
    IN  /\ ~IsDefaultPath(path, path_str)
        /\ \E i \in 1..Len(current) : current[i] = path \/ current[i] = path_str
        /\ fs_config' = [fs_config EXCEPT !.allowed_paths =
                            SelectSeq(current, LAMBDA e : e # path /\ e # path_str)]
        /\ last' = NoCall
        /\ admin' = IF keep THEN AdminCall("remove-path", path_str) ELSE admin
        /\ UNCHANGED <<bk, svc, web, fs, now, stats, eng, lp>>

\* POST /api/permissions/reset-to-defaults
ResetToDefaultPaths(keep) ==
    /\ fs_config.allowed_paths # DefaultAllowedPaths
    /\ fs_config' = [fs_config EXCEPT !.allowed_paths = DefaultAllowedPaths]
    /\ last' = NoCall
    /\ admin' = IF keep THEN AdminCall("reset-to-defaults", <<>>) ELSE admin
    /\ UNCHANGED <<bk, svc, web, fs, now, stats, eng, lp>>

\* ToolConfig.enabled is a mutable field of the tool's configuration
SetEnabled(b) ==
    /\ fs_config.enabled # b
    /\ fs_config' = [fs_config EXCEPT !.enabled = b]
    /\ last' = NoCall
    /\ UNCHANGED <<bk, svc, admin, web, fs, now, stats, eng, lp>>

\* the file_system tool as ImprovedAgentService constructs it
FsInit ==
    /\ fs = InitialFs
    /\ now = 0
    /\ fs_config = [enabled |-> TRUE, allowed_paths |-> DefaultAllowedPaths,
                    enable_backup |-> TRUE, safe_mode |-> TRUE]
    /\ stats = [execution_count |-> 0, success_count |-> 0, error_count |-> 0,
                total_execution_time |-> 0]
    /\ last = NoCall
    /\ admin = NoAdminCall

\* -------------------------------------------------- the web_search tool
NoWebTool == [pc |-> "none"]

\* the least index i >= from with s[i] in cs, Len(s) + 1 when there is none
FirstOf(s, cs, from) ==
    LET I == {i \in from..Len(s) : s[i] \in cs}
    IN  IF I = {} THEN Len(s) + 1 ELSE CHOOSE i \in I : \A j \in I : i <= j

\* urllib.parse.urlparse(url).netloc: what follows "//" after the scheme,
\* up to the first "/", "?" or "#"
Netloc(url) ==
    LET i == FirstOf(url, {":"}, 1)
    IN  IF i + 2 <= Len(url) /\ url[i + 1] = "/" /\ url[i + 2] = "/"
        THEN SubSeq(url, i + 3, FirstOf(url, {"/", "?", "#"}, i + 3) - 1)
        ELSE <<>>

\* the host an HTTP client connects to for the url: the netloc without
\* userinfo and port, in lower case
RECURSIVE AfterAt(_)
AfterAt(netloc) ==
    LET i == FirstOf(netloc, {"@"}, 1)
    IN  IF i > Len(netloc) THEN netloc ELSE AfterAt(SubSeq(netloc, i + 1, Len(netloc)))

Hostname(url) ==
    LET hostport == AfterAt(Netloc(url))
    IN  Lower(IF hostport # <<>> /\ hostport[1] = "["
              THEN SubSeq(hostport, 1, FirstOf(hostport, {"]"}, 1))
              ELSE SubSeq(hostport, 1, FirstOf(hostport, {":"}, 1) - 1))

D_malware  == <<"m", "a", "l", "w", "a", "r", "e", ".", "c", "o", "m">>
D_phishing == <<"p", "h", "i", "s", "h", "i", "n", "g", ".", "c", "o", "m">>
D_ok       == <<"o", "k", ".", "o", "r", "g">>

\* WebSearchConfig.blocked_domains as ImprovedAgentService configures it
BlockedDomains == << D_malware, D_phishing >>

S_http  == <<"h", "t", "t", "p", ":", "/", "/">>
S_https == <<"h", "t", "t", "p", "s", ":", "/", "/">>

\* the substrings that _validate_url_security refuses in the lowered url
SuspiciousUrlPatterns ==
    { <<"l", "o", "c", "a", "l", "h", "o", "s", "t">>, <<"1", "2", "7", ".", "0", ".", "0", ".", "1">>, <<"0", ".", "0", ".", "0", ".", "0">>, <<"1", "9", "2", ".", "1", "6", "8", ".">>, <<"1", "0", ".", "0", ".", "0", ".">>,
      <<"f", "i", "l", "e", ":", "/", "/">>, <<"j", "a", "v", "a", "s", "c", "r", "i", "p", "t", ":">>, <<"d", "a", "t", "a", ":">> }

\* the patterns _security_check refuses in the query (re.IGNORECASE)
SuspiciousQueryPatterns ==
    { <<"j", "a", "v", "a", "s", "c", "r", "i", "p", "t", ":">>, <<"d", "a", "t", "a", ":">>, <<"v", "b", "s", "c", "r", "i", "p", "t", ":">>, <<"f", "i", "l", "e", ":", "/", "/">>,
      <<"<", "s", "c", "r", "i", "p", "t">>, <<"<", "/", "s", "c", "r", "i", "p", "t", ">">>, <<"o", "n", "c", "l", "i", "c", "k", "=">>, <<"o", "n", "e", "r", "r", "o", "r", "=">> }

\* the blocked-domain loop (web_search_tool.py 201-206)
DomainBlocked(domain, blocked_domains) ==
    \E i \in 1..Len(blocked_domains) : Contains(domain, blocked_domains[i])

\* the allowed-domain loop (web_search_tool.py 209-220)
DomainNotAllowed(domain, allowed_domains) ==
    /\ allowed_domains # <<>>
    /\ ~ \E i \in 1..Len(allowed_domains) : Contains(domain, allowed_domains[i])

\* WebSearchTool._validate_url_security: "allow", or the rule that raises
ValidateUrlSecurity(cfg, url) ==
    LET domain == Lower(Netloc(url))
    IN  IF DomainBlocked(domain, cfg.blocked_domains) THEN "blocked"
        ELSE IF DomainNotAllowed(domain, cfg.allowed_domains) THEN "not_allowed"
        ELSE IF \E x \in SuspiciousUrlPatterns : Contains(Lower(url), x)
            THEN "suspicious_url"
        ELSE "allow"

\* WebSearchTool._security_check on the query of a call
WebSecurityCheck(cfg, query) ==
    IF \E x \in SuspiciousQueryPatterns : Contains(Lower(query), x)
        THEN "suspicious_query"
    ELSE IF StartsWith(query, S_http) \/ StartsWith(query, S_https)
        THEN ValidateUrlSecurity(cfg, query)
    ELSE "allow"

\* the error string of the ToolError of each rule
WebDenialError(reason) ==
    CASE reason = "blocked"          -> "Domain is blocked"
      [] reason = "not_allowed"      -> "Domain not in allowed list"
      [] reason = "suspicious_url"   -> "Suspicious URL pattern detected"
      [] OTHER                       -> "Suspicious pattern detected in query"

U_malware == <<"h", "t", "t", "p", ":", "/", "/", "m", "a", "l", "w", "a", "r", "e", ".", "c", "o", "m", "/", "x">>
U_ok      == <<"h", "t", "t", "p", ":", "/", "/", "o", "k", ".", "o", "r", "g", "/">>
U_evil    == <<"h", "t", "t", "p", ":", "/", "/", "o", "k", ".", "o", "r", "g", ".", "e", "v", "i", "l", ".", "i", "o", "/">>
U_other   == <<"h", "t", "t", "p", ":", "/", "/", "o", "t", "h", "e", "r", ".", "i", "o", "/">>
U_lo      == <<"h", "t", "t", "p", ":", "/", "/", "1", "2", "7", ".", "0", ".", "0", ".", "1", "/">>
U_lo2     == <<"h", "t", "t", "p", ":", "/", "/", "1", "2", "7", ".", "0", ".", "0", ".", "2", "/">>
U_meta    == <<"h", "t", "t", "p", ":", "/", "/", "1", "6", "9", ".", "2", "5", "4", ".", "1", "6", "9", ".", "2", "5", "4", "/">>
U_10      == <<"h", "t", "t", "p", ":", "/", "/", "1", "0", ".", "1", ".", "2", ".", "3", "/">>
U_172     == <<"h", "t", "t", "p", ":", "/", "/", "1", "7", "2", ".", "1", "6", ".", "0", ".", "1", "/">>
U_192     == <<"h", "t", "t", "p", ":", "/", "/", "1", "9", "2", ".", "1", "6", "8", ".", "1", ".", "1", "/">>
U_lh      == <<"h", "t", "t", "p", ":", "/", "/", "L", "o", "c", "a", "l", "h", "o", "s", "t", ":", "8", "0", "/">>
U_v6      == <<"h", "t", "t", "p", ":", "/", "/", "[", ":", ":", "1", "]", "/">>

\* the blocked host and the loopback address under a scheme in capitals
U_MALWARE == <<"H", "T", "T", "P", ":", "/", "/", "m", "a", "l", "w", "a", "r", "e", ".", "c", "o", "m", "/", "x">>
U_LO      == <<"H", "t", "t", "p", ":", "/", "/", "1", "2", "7", ".", "0", ".", "0", ".", "1", "/">>

UrlInputs ==
    { U_malware, U_ok, U_evil, U_other, U_lo, U_lo2, U_meta, U_10, U_172, U_192,
      U_lh, U_v6, U_MALWARE, U_LO }

\* the allowed_domains and blocked_domains a WebSearchConfig is given
AllowedDomainInputs == { <<>>, << D_ok >> }
BlockedDomainInputs == { <<>>, BlockedDomains }

\* --------------------------------- the search cache of the web_search tool
\* WebSearchConfig.cache_ttl, in seconds, and WebSearchConfig.max_results
CacheTtl == 3600
DefaultMaxResults == 10
\* search calls per behaviour, and the half hours that pass
MaxSearchCalls == 2
CacheTicks == 2

\* WebSearchConfig.default_search_engine "duckduckgo" (ddg), the
\* time ranges and the language
E_ddg  == <<"d", "d", "g">>
E_none == <<"n", "o">>
R_all  == <<"a", "l", "l">>
R_week == <<"w", "e", "e", "k">>
L_en   == <<"e", "n">>
S_news == <<" ", "n", "e", "w", "s">>
Q_q    == <<"q">>

\* an int argument
IntArg(n) == [kind |-> "int", val |-> n]

\* the keyword arguments of a search or search_news call
SearchKw(op, query, search_engine, max_results, time_range) ==
    [operation |-> op, query |-> query, search_engine |-> search_engine,
     max_results |-> max_results, time_range |-> time_range]

\* search_news("q"); search("q news", 10, "week"), the call it delegates
\* to; that call with another max_results, with another time range, with
\* an engine the tool does not know; search("q")
SearchInputs ==
    { SearchKw("search_news", Q_q, None, None, None),
      SearchKw("search", Q_q \o S_news, None, IntArg(10), Str(R_week)),
      SearchKw("search", Q_q \o S_news, None, IntArg(5), Str(R_week)),
      SearchKw("search", Q_q \o S_news, None, IntArg(10), None),
      SearchKw("search", Q_q, Str(E_none), None, None),
      SearchKw("search", Q_q, None, None, None) }

\* str(n) of a natural number
RECURSIVE Decimal(_)
Decimal(n) ==
    IF n < 10 THEN << Digits[n + 1] >>
    ELSE Decimal(n \div 10) \o << Digits[(n % 10) + 1] >>

\* f"{search_engine}:{query}:{max_results}:{time_range}:{language}"
CacheKey(search_engine, query, max_results, time_range, language) ==
    search_engine \o <<":">> \o query \o <<":">> \o Decimal(max_results)
        \o <<":">> \o time_range \o <<":">> \o language

\* the arguments _search_web works with: `search_engine or default`,
\* `max_results or self.web_config.max_results`, time_range="all",
\* language="en"
SearchWebArgs(query, search_engine, max_results, time_range) ==
    [query |-> query,
     search_engine |-> IF Truthy(search_engine) THEN search_engine.val ELSE E_ddg,
     max_results |-> IF max_results.kind = "int" /\ max_results.val # 0
                     THEN max_results.val ELSE DefaultMaxResults,
     time_range |-> IF time_range.kind = "none" THEN R_all ELSE time_range.val,
     language |-> L_en]

\* the call of _search_web an operation makes: _search_news passes
\* f"{query} news", `max_results or 10` and time_range="week"
SearchArgs(kw) ==
    IF kw.operation = "search_news"
    THEN SearchWebArgs(kw.query \o S_news, kw.search_engine,
                       IF kw.max_results.kind = "int" /\ kw.max_results.val # 0
                       THEN kw.max_results ELSE IntArg(10),
                       IF kw.time_range.kind = "none" THEN Str(R_week) ELSE kw.time_range)
    ELSE SearchWebArgs(kw.query, kw.search_engine, kw.max_results, kw.time_range)

\* what the search engine returned at time t
Results(a, t) == [query |-> a.query, search_engine |-> a.search_engine, fetched |-> t]

\* an entry of search_cache
CacheEntry(data, t) == [data |-> data, timestamp |-> t]

\* `cache_key in self.search_cache and now - timestamp < timedelta(cache_ttl)`
CacheHit(cache, key, t) == key \in DOMAIN cache /\ t - cache[key].timestamp < CacheTtl

\* history: the latest search call, whether the cache answered it, and the
\* components of the request with the defaults filled in
Searched(kw, a, res, cached) ==
    [kw |-> kw, result |-> res, cached |-> cached,
     request |-> <<kw.operation, kw.query, a.search_engine, a.time_range, a.language>>]
NoSearch == [kw |-> None, result |-> NoResult, cached |-> FALSE, request |-> <<>>]

\* WebSearchTool._search_web with the arguments a at time t; net is the
\* outcome of the request to the search engine
SearchWeb(w, kw, a, net, t) ==
    Let(CacheKey(a.search_engine, a.query, a.max_results, a.time_range, a.language),
        LAMBDA cache_key :
            IF CacheHit(w.search_cache, cache_key, t)
            THEN [w EXCEPT !.searched =
                     Searched(kw, a, Success(w.search_cache[cache_key].data), TRUE)]
            ELSE IF a.search_engine # E_ddg \/ net = "fail"
            THEN [w EXCEPT !.searched = Searched(kw, a, Failure("Search failed"), FALSE)]
            ELSE [w EXCEPT
                     !.search_cache =
                         [k \in DOMAIN @ \cup {cache_key} |->
                             IF k = cache_key THEN CacheEntry(Results(a, t), t) ELSE @[k]],
                     !.answered = @ \cup { [request |-> Searched(kw, a, NoResult, FALSE).request,
                                            at |-> t] },
                     !.searched = Searched(kw, a, Success(Results(a, t)), FALSE)])

\* execute(operation="search" or "search_news", query=..., ...):
\* _security_check, then _search_web
WebSearch(kw, net) ==
    /\ web.pc = "ready"
    /\ web.searches < MaxSearchCalls
    /\ web' = IF WebSecurityCheck(web, kw.query) # "allow"
              THEN [web EXCEPT !.searches = @ + 1,
                               !.searched = Searched(kw, SearchArgs(kw),
                                                Failure(WebDenialError("suspicious_query")), FALSE)]
              ELSE [SearchWeb(web, kw, SearchArgs(kw), net, now) EXCEPT !.searches = @ + 1]
    /\ UNCHANGED <<bk, svc, fs, now, fs_config, stats, last, eng, lp, admin>>

\* ------------------------------------ bulk_search of the web_search tool
\* `for url in urls[:10]`
BulkLimit == 10
\* bulk_search calls per behaviour
MaxBulkCalls == 2

\* the urls lists of the bulk_search calls: one url, two, three with a
\* blocked one in the middle, eleven
UrlListInputs ==
    { << U_ok >>, << U_ok, U_other >>, << U_other, U_malware, U_ok >>,
      [i \in 1..(BulkLimit + 1) |-> IF i % 2 = 1 THEN U_ok ELSE U_other] }

\* the loop over all_urls of _security_check: the rule that raises for the
\* first url that starts with http:// or https:// and is refused
UrlsSecurityCheck(cfg, urls) ==
    LET I == { i \in 1..Len(urls) :
                 /\ StartsWith(urls[i], S_http) \/ StartsWith(urls[i], S_https)
                 /\ ValidateUrlSecurity(cfg, urls[i]) # "allow" }
    IN  IF I = {} THEN "allow"
        ELSE ValidateUrlSecurity(cfg, urls[CHOOSE i \in I : \A j \in I : i <= j])

\* one turn of the for loop of _bulk_search: the entry appended to results
\* and whether a request was sent to the url; net says how a request ends
BulkResult(url, operation, net) ==
    CASE operation = "validate_url" ->
            [url |-> url, probed |-> TRUE, kind |-> IF net = "ok" THEN "accessible" ELSE "inaccessible"]
      [] operation \in {"extract_content", "get_page_info"} ->
            [url |-> url, probed |-> TRUE, kind |-> IF net = "ok" THEN "content" ELSE "error"]
      [] OTHER ->
            [url |-> url, probed |-> FALSE, kind |-> "unsupported"]

\* _bulk_search(urls, operation): results holds one entry for each of
\* urls[:10], in order
BulkResults(urls, operation, nets) ==
    [i \in 1..(IF Len(urls) < BulkLimit THEN Len(urls) ELSE BulkLimit) |->
        BulkResult(urls[i], operation, nets[i])]

\* the urls that requests were sent to, in order
RECURSIVE Probed(_)
Probed(results) ==
    IF results = <<>> THEN <<>>
    ELSE (IF Head(results).probed THEN << Head(results).url >> ELSE <<>>)
         \o Probed(Tail(results))

\* a bulk_search call as the tool keeps it: the n-th, its urls, the rule
\* that denied it, results and the requests sent
Bulk(n, urls, reason, results) ==
    [n |-> n, urls |-> urls, reason |-> reason, results |-> results,
     probed |-> Probed(results)]
NoBulk == Bulk(0, <<>>, "none", <<>>)

\* a web_search call as the tool keeps it: the operation and the query,
\* the ToolResult, the rule that denied it
WebCall(op, query, res, reason) ==
    [operation |-> op, query |-> query, result |-> res, reason |-> reason]
NoWebCall == WebCall("none", <<>>, NoResult, "none")

\* WebSearchTool(config): the tool with its WebSearchConfig
NewWebSearchTool(allowed_domains, blocked_domains) ==
    /\ web.pc = "none"
    /\ web' = [pc |-> "ready", allowed_domains |-> allowed_domains,
               blocked_domains |-> blocked_domains,
               calls |-> 0, requests |-> {}, last |-> NoWebCall,
               search_cache |-> [k \in {} |-> 0], answered |-> {},
               searches |-> 0, searched |-> NoSearch, bulk |-> NoBulk]
    /\ UNCHANGED <<bk, svc, fs, now, fs_config, stats, last, eng, lp, admin>>

\* execute(operation="validate_url" or "extract_content", query=url):
\* _security_check, then session.head(url) or session.get(url), which
\* succeeds or fails (net); _validate_url returns a dict in both cases,
\* _extract_content raises ToolError when the request fails
WebExecute(op, url, net) ==
    /\ web.pc = "ready"
    /\ web.calls < MaxCalls
    /\ LET reason == WebSecurityCheck(web, url)
       IN  web' = IF reason # "allow"
                  THEN [web EXCEPT !.calls = @ + 1,
                            !.last = WebCall(op, url, Failure(WebDenialError(reason)), reason)]
                  ELSE [web EXCEPT !.calls = @ + 1,
                            !.requests = @ \cup { Hostname(url) },
                            !.last = WebCall(op, url,
                                IF op = "extract_content" /\ net = "fail"
                                THEN Failure("HTTP error") ELSE Success(Payload(net, <<>>, 0)),
                                "allow")]
    /\ UNCHANGED <<bk, svc, fs, now, fs_config, stats, last, eng, lp, admin>>

\* execute(operation="bulk_search", urls=urls): _security_check, then
\* _execute hands every keyword argument, operation among them, to
\* _bulk_search (web_search_tool.py 137-164, 604-644)
WebBulkSearch(operation, urls, nets) ==
    /\ web.pc = "ready"
    /\ web.bulk.n < MaxBulkCalls
    /\ LET reason == UrlsSecurityCheck(web, urls)
       IN  web' = IF reason # "allow"
                  THEN [web EXCEPT !.bulk = Bulk(@.n + 1, urls, reason, <<>>),
                            !.last = WebCall(operation, <<>>, Failure(WebDenialError(reason)), reason)]
                  ELSE Let(BulkResults(urls, operation, nets), LAMBDA results :
                       [web EXCEPT !.bulk = Bulk(@.n + 1, urls, "allow", results),
                            !.requests = @ \cup { Hostname(results[i].url) :
                                                     i \in { j \in DOMAIN results : results[j].probed } },
                            !.last = WebCall(operation, <<>>,
                                             Success(Payload("bulk", <<>>, Len(results))), "allow")])
    /\ UNCHANGED <<bk, svc, fs, now, fs_config, stats, last, eng, lp, admin>>

\* bulk_search calls on the web_search tool, among its validate_url calls
BulkNext ==
    \/ \E a \in AllowedDomainInputs, b \in BlockedDomainInputs : NewWebSearchTool(a, b)
    \/ \E urls \in UrlListInputs, nets \in [1..BulkLimit -> {"ok"}] \cup [1..BulkLimit -> {"fail"}] :
          WebBulkSearch("bulk_search", urls, nets)
    \/ \E url \in UrlInputs, net \in {"ok", "fail"} : WebExecute("validate_url", url, net)

WebNext ==
    \/ \E a \in AllowedDomainInputs, b \in BlockedDomainInputs : NewWebSearchTool(a, b)
    \/ \E op \in {"validate_url", "extract_content"}, url \in UrlInputs,
          net \in {"ok", "fail"} : WebExecute(op, url, net)

\* ------------------------------- BaseTool.execute, one step at a time
\* The work of _execute is a sequence of segments: a "sync" segment runs
\* on the event loop's thread without suspending (shutil, os and pathlib
\* calls), an "await" segment suspends the coroutine until its I/O is done
\* (aiofiles, aiohttp).  asyncio.wait_for delivers its timeout only while
\* the coroutine is suspended.

\* ToolConfig.max_execution_time, in clock ticks
MaxExecutionTime == 2
\* the longest one segment of work takes, in clock ticks
MaxSegmentTime == 3
\* the largest ToolConfig.retry_attempts configured
MaxRetryAttempts == 1

\* the segments of the operations, from their bodies
Profile(op) ==
    CASE op = "delete" -> <<"sync">>
      [] op = "copy"   -> <<"sync">>
      [] op = "read"   -> <<"sync", "await">>
      [] op = "write"  -> <<"sync", "await">>
      [] op = "search" -> <<"await">>
      [] OTHER         -> <<>>

EngineOperations == {"delete", "copy", "read", "write", "search"}

\* how a hook of the tool ends
Endings == {"return", "ToolError", "Exception"}

TimedOut == ExceptResult("TimeoutError", "")

\* one execute() call: its position, the remaining segments of _execute,
\* how _security_check and _execute end, the time since start_time, the
\* number of _security_check and _execute invocations of the call, and of
\* the tool: ToolConfig.retry_attempts, the execute() calls begun and the
\* sum of the execution_time of the ToolResults returned
EngIdle ==
    [pc |-> "idle", op |-> "none", segs |-> <<>>, ends |-> "return", elapsed |-> 0,
     invocations |-> 0, errors_before |-> 0, result |-> NoResult,
     sec |-> "return", checks |-> 0, retry_attempts |-> 0, calls |-> 0, durations |-> 0,
     worker |-> "none", handle |-> FALSE]

\* an engine that runs _execute whatever _security_check raised
AllowsAll(sec) == TRUE

\* _security_check returned without raising, so that execute() goes on to
\* wait_for(self._execute(...)) (base_tool.py 124-130)
SecurityAllows(sec) == sec = "return"

\* execute() leaves through an except clause, or the exception escapes
EngExcept(e, class, message, at) ==
    IF Caught(class)
    THEN [e EXCEPT !.pc = "done", !.segs = <<>>, !.elapsed = at,
                   !.durations = @ + at,
                   !.result = ExceptResult(class, message)]
    ELSE [e EXCEPT !.pc = "raised", !.segs = <<>>, !.elapsed = at]

\* the counters after an exception of the given class
StatsExcept(st, class) ==
    IF Caught(class) THEN [st EXCEPT !.error_count = @ + 1] ELSE st

\* execute() is called: the disabled check, the counting, parameter
\* validation and the security check, up to the call of wait_for
\* (base_tool.py 106-130); sec is how _security_check ends
EngCall(op, sec, ends, n) ==
    /\ eng.pc \in {"idle", "done"}
    /\ eng.calls < MaxCalls
    /\ LET e0 == [EngIdle EXCEPT !.op = op, !.ends = ends, !.retry_attempts = n,
                                 !.errors_before = stats.error_count,
                                 !.calls = eng.calls + 1, !.durations = eng.durations]
           e1 == [e0 EXCEPT !.sec = sec, !.checks = 1]
           st == [stats EXCEPT !.execution_count = @ + 1]
       IN  IF IsDisabled(fs_config)
           THEN /\ eng' = [e0 EXCEPT !.pc = "done",
                                     !.result = FailureAt0("Tool file_system is disabled")]
                /\ stats' = stats
           ELSE IF ~SecurityAllows(sec)
           THEN /\ eng' = EngExcept(e1, sec, "denied", 0)
                /\ stats' = StatsExcept(st, sec)
           ELSE /\ eng' = [e1 EXCEPT !.pc = "running", !.segs = Profile(op),
                                     !.invocations = 1]
                /\ stats' = st
    /\ UNCHANGED <<bk, svc, admin, web, fs, now, fs_config, last, lp>>

\* a segment that does not suspend runs for d ticks, whatever the deadline
EngSync(d) ==
    /\ eng.pc = "running"
    /\ eng.segs # <<>> /\ Head(eng.segs) = "sync"
    /\ eng' = [eng EXCEPT !.segs = Tail(@), !.elapsed = @ + d]
    /\ UNCHANGED <<bk, svc, admin, web, fs, now, fs_config, stats, last, lp>>

\* the coroutine is suspended on I/O that takes d ticks and is resumed
\* before the timer of wait_for is due
EngAwait(d) ==
    /\ eng.pc = "running"
    /\ eng.segs # <<>> /\ Head(eng.segs) = "await"
    /\ eng.elapsed + d <= MaxExecutionTime
    /\ eng' = [eng EXCEPT !.segs = Tail(@), !.elapsed = @ + d]
    /\ UNCHANGED <<bk, svc, admin, web, fs, now, fs_config, stats, last, lp>>

\* the timer of wait_for fires while the coroutine is suspended on I/O that
\* takes d ticks: the work is cancelled, asyncio.TimeoutError is raised in
\* execute() (base_tool.py 152-163)
EngTimeout(d) ==
    /\ eng.pc = "running"
    /\ eng.segs # <<>> /\ Head(eng.segs) = "await"
    /\ eng.elapsed + d >= MaxExecutionTime
    /\ eng' = EngExcept(eng, "TimeoutError", "",
                        IF eng.elapsed > MaxExecutionTime THEN eng.elapsed
                        ELSE MaxExecutionTime)
    /\ stats' = StatsExcept(stats, "TimeoutError")
    /\ UNCHANGED <<bk, svc, admin, web, fs, now, fs_config, last, lp>>

\* _execute ends, by a return or by an exception (base_tool.py 132-150,
\* 165-198)
EngEnd ==
    /\ eng.pc = "running"
    /\ eng.segs = <<>>
    /\ IF eng.ends = "return"
       THEN /\ eng' = [eng EXCEPT !.pc = "done", !.result = Success(Payload("payload", <<>>, 0)),
                                  !.durations = @ + eng.elapsed]
            /\ stats' = [stats EXCEPT !.success_count = @ + 1,
                                      !.total_execution_time = @ + eng.elapsed]
       ELSE /\ eng' = EngExcept(eng, eng.ends, "failed", eng.elapsed)
            /\ stats' = StatsExcept(stats, eng.ends)
    /\ UNCHANGED <<bk, svc, admin, web, fs, now, fs_config, last, lp>>

\* BaseTool.reset_statistics: the counters are set to zero, whatever
\* execute() call is in flight (base_tool.py 254-262)
ResetStatistics ==
    /\ stats # [execution_count |-> 0, success_count |-> 0, error_count |-> 0,
                total_execution_time |-> 0]
    /\ stats' = [execution_count |-> 0, success_count |-> 0, error_count |-> 0,
                 total_execution_time |-> 0]
    /\ UNCHANGED <<bk, svc, admin, web, fs, now, fs_config, last, eng, lp>>

\* execute() calls and resets of the statistics between their steps
StatisticsNext ==
    \/ \E op \in EngineOperations, sec \in Endings, ends \in Endings :
          EngCall(op, sec, ends, 0)
    \/ \E d \in 0..MaxSegmentTime : EngSync(d)
    \/ \E d \in 0..MaxSegmentTime : EngAwait(d)
    \/ \E d \in 0..MaxSegmentTime : EngTimeout(d)
    \/ EngEnd
    \/ ResetStatistics

EngineNext ==
    \/ \E op \in EngineOperations, sec \in Endings, ends \in Endings,
          n \in 0..MaxRetryAttempts : EngCall(op, sec, ends, n)
    \/ \E d \in 0..MaxSegmentTime : EngSync(d)
    \/ \E d \in 0..MaxSegmentTime : EngAwait(d)
    \/ \E d \in 0..MaxSegmentTime : EngTimeout(d)
    \/ EngEnd
    \/ \E b \in BOOLEAN : SetEnabled(b)

\* ------------------- a write under wait_for, one await at a time
\* _write_file awaits three times: aiofiles.open, f.write and the close of
\* `async with`.  aiofiles hands each of them to a worker thread of the
\* event loop's executor and suspends the coroutine until the thread is
\* done.  The timer of wait_for cancels the coroutine where it is
\* suspended; the job of the thread cannot be cancelled and runs to its end.

\* execute(operation="write") calls per behaviour
MaxCancelCalls == 2

\* the writes made: of the existing /w/a.py and of the new /w/b.py
CancelRequests == { Kw("write", Str(p), None, Str(T_c2)) : p \in { P_a, P_b } }

\* one execute(operation="write") call: where its coroutine is suspended,
\* the job of the worker thread in flight, whether a file object is open
WriteCall(pc, kw, worker, handle, calls, res) ==
    [pc |-> pc, op |-> "write", kw |-> kw, worker |-> worker, handle |-> handle,
     calls |-> calls, result |-> res]

\* execute() up to the first await of _write_file: the counting, the
\* security check, the backup of an existing file and parent.mkdir, none
\* of which suspends (base_tool.py 113-130, file_system_tool.py 306-312)
WriteBegins(kw) ==
    /\ eng.pc = "idle" \/ (eng.pc = "done" /\ eng.worker = "none" /\ ~eng.handle)
    /\ eng.calls < MaxCancelCalls
    /\ ~IsDisabled(fs_config)
    /\ AfterSuper(fs_config, SecurityCheck(PolicyPaths(fs_config), kw.operation,
                                           kw.path)) = "allow"
    /\ LET parts == RawParts(kw.path.val)
           b     == IF Exists(fs, parts) /\ fs_config.enable_backup
                    THEN BackupFile(fs, kw, now) ELSE Ok(fs, "none")
           m     == MkdirParents(b.fs, Parent(parts), now)
       IN  /\ b.out = "ok" /\ m.err = "ok"
           /\ fs' = m.fs
    /\ stats' = [stats EXCEPT !.execution_count = @ + 1]
    /\ eng' = WriteCall("open", kw, "open", FALSE, eng.calls + 1, NoResult)
    /\ UNCHANGED <<bk, svc, admin, web, now, fs_config, last, lp>>

\* the thread's open(file_path, "w") returns: the file is created or
\* truncated.  The coroutine, if it still waits, goes on to `await
\* f.write(content)`; if it was cancelled, no one takes the file object
WorkerOpens ==
    /\ eng.worker = "open"
    /\ fs' = WriteAt(fs, RawParts(eng.kw.path.val), <<>>, now).fs
    /\ eng' = IF eng.pc = "open"
              THEN [eng EXCEPT !.pc = "write", !.worker = "write", !.handle = TRUE]
              ELSE [eng EXCEPT !.worker = "none", !.handle = TRUE]
    /\ UNCHANGED <<bk, svc, admin, web, now, fs_config, stats, last, lp>>

\* the thread's f.write(content) returns, the text stands in the buffer of
\* the file object: the coroutine leaves `async with`, which awaits the close
WorkerWrites ==
    /\ eng.worker = "write"
    /\ eng' = [eng EXCEPT !.pc = "close", !.worker = "close"]
    /\ UNCHANGED <<bk, svc, admin, web, fs, now, fs_config, stats, last, lp>>

\* the thread's close returns: the buffer is flushed to the file.  The
\* coroutine, if it still waits, returns the dict of _write_file and
\* execute() counts a success (base_tool.py 132-150)
WorkerCloses ==
    /\ eng.worker = "close"
    /\ fs' = WriteAt(fs, RawParts(eng.kw.path.val), WriteText(eng.kw.content.val), now).fs
    /\ IF eng.pc = "close"
       THEN /\ eng' = [eng EXCEPT !.pc = "done", !.worker = "none", !.handle = FALSE,
                          !.result = Success(Payload("written", <<>>,
                                                     Len(WriteText(eng.kw.content.val))))]
            /\ stats' = [stats EXCEPT !.success_count = @ + 1]
       ELSE /\ eng' = [eng EXCEPT !.worker = "none", !.handle = FALSE]
            /\ stats' = stats
    /\ UNCHANGED <<bk, svc, admin, web, now, fs_config, last, lp>>

\* the timer of wait_for fires while the coroutine is suspended: it is
\* cancelled there and execute() returns the timeout result (base_tool.py
\* 127-130, 152-163).  Cancelled at f.write, `async with` still closes the
\* file, with or without the text (flushed); cancelled at the open or at
\* the close, the coroutine ends at once and the thread's job stays in flight
WaitForTimeout(flushed) ==
    /\ eng.pc \in {"open", "write", "close"}
    /\ IF eng.pc = "write"
       THEN /\ fs' = IF flushed
                     THEN WriteAt(fs, RawParts(eng.kw.path.val),
                                  WriteText(eng.kw.content.val), now).fs
                     ELSE fs
            /\ eng' = [eng EXCEPT !.pc = "done", !.worker = "none", !.handle = FALSE,
                                  !.result = ExceptResult("TimeoutError", "")]
       ELSE /\ fs' = fs
            /\ eng' = [eng EXCEPT !.pc = "done", !.result = ExceptResult("TimeoutError", "")]
    /\ stats' = StatsExcept(stats, "TimeoutError")
    /\ UNCHANGED <<bk, svc, admin, web, now, fs_config, last, lp>>

\* the file object that no coroutine holds is closed by its finaliser
Finalize ==
    /\ eng.pc = "done" /\ eng.worker = "none" /\ eng.handle
    /\ eng' = [eng EXCEPT !.handle = FALSE]
    /\ UNCHANGED <<bk, svc, admin, web, fs, now, fs_config, stats, last, lp>>

\* ------------------- ImprovedAgentService.execute_tool (agent_service.py)
\* the registered tools and AgentConfig.allowed_tools
Tools        == {"file_system", "web_search"}
AllowedTools == {"file_system", "web_search"}

\* AgentSession counters
NoSession == [total_tool_executions |-> 0, successful_executions |-> 0]

\* one outcome of execute_tool: raised says an exception left it
ToolOutcome(raised, f, res, counted, session) ==
    [raised |-> raised, fs |-> f, result |-> res, counted |-> counted, session |-> session]

\* a session that counts its successful executions only
SessionAfterSuccess(session, res) ==
    IF res.success
    THEN [session EXCEPT !.total_tool_executions = @ + 1, !.successful_executions = @ + 1]
    ELSE session

\* the session after a tool.execute that returned res (agent_service.py 282-296)
SessionAfter(session, res) ==
    [session EXCEPT !.total_tool_executions = @ + 1,
                    !.successful_executions = @ + (IF res.success THEN 1 ELSE 0)]

\* execute_tool(tool_name, parameters, session_id): the registry and
\* allow-list checks, the path pre-check, whose Path(parameters['path'])
\* stands outside the try block and raises TypeError for a path that is
\* no str, then tool.execute(**parameters)
ExecuteToolOutcomes(cfg, f, t, session, name, kw) ==
    IF name \notin Tools
    THEN { ToolOutcome(FALSE, f, FailureAt0("Tool not found"), "none", session) }
    ELSE IF name \notin AllowedTools
    THEN { ToolOutcome(FALSE, f, FailureAt0("Tool not allowed"), "none", session) }
    ELSE IF kw.path.kind # "none" /\ ~IsStr(kw.path)
    THEN { ToolOutcome(TRUE, f, NoResult, "none", session) }
    ELSE { ToolOutcome(FALSE, o.fs, o.result, o.counted, SessionAfter(session, o.result)) :
             o \in ExecuteOutcomes(cfg, f, t, kw) }

\* ------------ ImprovedAgentService.agent_chat_with_tools (agent_service.py)
\* max_iterations of a request: AgentChatRequest allows 1..10
MaxIterations == 3
\* tool calls in one completion reply
MaxReplyCalls == 2

\* a tool call of a completion reply: function.name and function.arguments,
\* which json.loads parses into args unless the text is malformed
ToolCall(name, malformed, kw) == [name |-> name, malformed |-> malformed, args |-> kw]

CallW == ToolCall("file_system", FALSE, Kw("write", Str(P_b), None, Str(T_c2)))
CallR == ToolCall("file_system", FALSE, Kw("read", Str(P_b), None, None))
CallX == ToolCall("file_system", FALSE, Kw("read", Str(P_wx), None, None))
CallT == ToolCall("file_system", FALSE, Kw("read", BadType, None, None))
CallU == ToolCall("calculator", FALSE, Kw("read", Str(P_b), None, None))
CallM == ToolCall("file_system", TRUE, Kw("none", None, None, None))

ToolCallInputs == { CallW, CallR, CallX, CallT, CallU, CallM }

\* the tool_calls lists a completion reply may carry
ReplyInputs ==
    UNION { [1..n -> ToolCallInputs] : n \in 1..MaxReplyCalls }

\* tool_call["id"]: the id the completion client gave to call i of the
\* reply it sent when the conversation held n messages
CallId(n, i) == <<n, i>>
NoCallId == <<>>

\* the messages of the conversation, by what the orchestrator appends: an
\* assistant message carries message["tool_calls"], the calls of the whole
\* reply by their ids; a tool message carries the tool_call_id it answers
SystemMessage ==
    [role |-> "system", call |-> 0, success |-> TRUE, tool_calls |-> {},
     tool_call_id |-> NoCallId]
UserMessage ==
    [role |-> "user", call |-> 0, success |-> TRUE, tool_calls |-> {},
     tool_call_id |-> NoCallId]
AssistantMessage(ids) ==
    [role |-> "assistant", call |-> 0, success |-> TRUE, tool_calls |-> ids,
     tool_call_id |-> NoCallId]
ToolMessage(id, i, res) ==
    [role |-> "tool", call |-> i, success |-> res.success, tool_calls |-> {},
     tool_call_id |-> id]

\* an entry of tool_calls_made
MadeCall(call, res) == [tool |-> call.name, arguments |-> call.args, result |-> res]

\* the dict agent_chat_with_tools returns
NoResponse == [kind |-> "none", tool_calls |-> <<>>, iterations |-> 0, error |-> FALSE]
FinalResponse(l) ==
    [kind |-> "final", tool_calls |-> l.tool_calls_made, iterations |-> l.iteration,
     error |-> FALSE]
LimitedResponse(l) ==
    [kind |-> "limited", tool_calls |-> l.tool_calls_made, iterations |-> l.iteration,
     error |-> TRUE]

LoopIdle ==
    [pc |-> "idle", max_iterations |-> 1, iteration |-> 0,
     reply |-> <<>>, idx |-> 1, running |-> {}, results |-> <<>>,
     tool_calls_made |-> <<>>, message_dicts |-> <<>>, calls |-> <<>>,
     session |-> NoSession, stop |-> "none", response |-> NoResponse,
     functions |-> {}, reply_at |-> 0]

\* tool calls dispatched without awaiting the one in flight
StartsAtOnce(running) == TRUE

\* `tool_result = await self.execute_tool(...)`: the next statement of the
\* for loop runs once the call in flight has returned
AwaitsResult(running) == running = {}

\* after a tool result in agent_service_backup.py: "If tool failed, break
\* the loop"
BreakOnFailure(res) == IF res.success THEN "continue" ELSE "break"

\* after a tool result: "Continue rather than break" (agent_service.py 427-430)
AfterToolResult(res) == "continue"

\* the return after the while loop (agent_service.py 456-464)
Returned(l, stop) ==
    [l EXCEPT !.pc = "returned", !.stop = stop, !.running = {},
              !.response = LimitedResponse(l)]

\* get_tool_function_specs: the specification of every tool whose
\* config.enabled is true, by tool name (agent_service.py 209-215)
GetToolFunctionSpecs(enabled) == { n \in DOMAIN enabled : enabled[n] }

\* the specifications of the tools that are enabled and allowed
AllowedFunctionSpecs(enabled, allowed_tools) ==
    { n \in DOMAIN enabled : enabled[n] /\ n \in allowed_tools }

\* POST /api/agent/chat: agent_chat_with_tools(messages, session_id, n);
\* functions is what every chat_completion of the call gets as tools
AgentChatWithTools(n) ==
    /\ lp.pc = "idle"
    /\ lp' = [LoopIdle EXCEPT !.pc = "while", !.max_iterations = n,
                              !.message_dicts = <<SystemMessage, UserMessage>>,
                              !.functions = GetToolFunctionSpecs(svc.enabled)]
    /\ UNCHANGED <<bk, svc, admin, web, fs, now, fs_config, stats, last, eng>>

\* `while iteration < max_iterations`: gpt_client.chat_completion is called
ChatCompletion ==
    /\ lp.pc = "while"
    /\ lp.iteration < lp.max_iterations
    /\ lp' = [lp EXCEPT !.pc = "completion"]
    /\ UNCHANGED <<bk, svc, admin, web, fs, now, fs_config, stats, last, eng>>

\* the while condition fails: the iteration-limited result is returned
ReturnIterationLimited ==
    /\ lp.pc = "while"
    /\ ~(lp.iteration < lp.max_iterations)
    /\ lp' = Returned(lp, "limit")
    /\ UNCHANGED <<bk, svc, admin, web, fs, now, fs_config, stats, last, eng>>

\* the reply carries no tool calls: the final response is returned
ReplyText ==
    /\ lp.pc = "completion"
    /\ lp' = [lp EXCEPT !.pc = "returned", !.stop = "text", !.response = FinalResponse(lp)]
    /\ UNCHANGED <<bk, svc, admin, web, fs, now, fs_config, stats, last, eng>>

\* chat_completion raises, or the reply has no choices: `except Exception: break`
ReplyRaises ==
    /\ lp.pc = "completion"
    /\ lp' = Returned(lp, "client_error")
    /\ UNCHANGED <<bk, svc, admin, web, fs, now, fs_config, stats, last, eng>>

\* the reply carries tool calls: the for loop over them starts
ReplyToolCalls(calls) ==
    /\ lp.pc = "completion"
    /\ lp' = [lp EXCEPT !.pc = "for", !.reply = calls, !.idx = 1,
                        !.reply_at = Len(lp.message_dicts),
                        !.results = [i \in 1..Len(calls) |-> NoResult]]
    /\ UNCHANGED <<bk, svc, admin, web, fs, now, fs_config, stats, last, eng>>

\* json.loads raises JSONDecodeError: `break` leaves the for loop
ForMalformed ==
    /\ lp.pc = "for"
    /\ lp.idx <= Len(lp.reply)
    /\ AwaitsResult(lp.running)
    /\ lp.reply[lp.idx].malformed
    /\ lp' = [lp EXCEPT !.pc = "while"]
    /\ UNCHANGED <<bk, svc, admin, web, fs, now, fs_config, stats, last, eng>>

\* execute_tool is called for the next tool call of the reply
ForExecuteTool ==
    /\ lp.pc = "for"
    /\ lp.idx <= Len(lp.reply)
    /\ AwaitsResult(lp.running)
    /\ ~lp.reply[lp.idx].malformed
    /\ lp' = [lp EXCEPT !.running = @ \cup {lp.idx}, !.idx = @ + 1,
                        !.calls = Append(@, lp.reply[lp.idx])]
    /\ UNCHANGED <<bk, svc, admin, web, fs, now, fs_config, stats, last, eng>>

\* the loop's variables after execute_tool returned res for call i
\* (agent_service.py 406-430)
AfterReturn(l, i, res, session) ==
    [l EXCEPT !.running = @ \ {i},
              !.results[i] = res,
              !.tool_calls_made = Append(@, MadeCall(l.reply[i], res)),
              !.message_dicts = @ \o
                  << AssistantMessage({ CallId(l.reply_at, j) : j \in 1..Len(l.reply) }),
                     ToolMessage(CallId(l.reply_at, i), i, res) >>,
              !.iteration = @ + 1,
              !.session = session,
              !.pc = IF AfterToolResult(res) = "continue" THEN "for" ELSE "while"]

\* execute_tool returns its ToolResult for call i, or raises into the
\* `except Exception: break` of the while loop
ToolReturns(i) ==
    /\ lp.pc = "for"
    /\ i \in lp.running
    /\ \E o \in ExecuteToolOutcomes(fs_config, fs, now, lp.session,
                                    lp.reply[i].name, lp.reply[i].args) :
        /\ fs' = o.fs
        /\ stats' = Counted(stats, o.counted)
        /\ lp' = IF o.raised THEN Returned(lp, "tool_raise")
                 ELSE AfterReturn(lp, i, o.result, o.session)
    /\ UNCHANGED <<bk, svc, admin, web, now, fs_config, last, eng>>

\* the for loop is exhausted: back to the while condition
ForEnd ==
    /\ lp.pc = "for"
    /\ lp.idx > Len(lp.reply)
    /\ lp.running = {}
    /\ lp' = [lp EXCEPT !.pc = "while"]
    /\ UNCHANGED <<bk, svc, admin, web, fs, now, fs_config, stats, last, eng>>

\* the steps of the orchestrator's own code
LoopSteps ==
    \/ \E n \in 1..MaxIterations : AgentChatWithTools(n)
    \/ ChatCompletion
    \/ ReturnIterationLimited
    \/ ReplyText
    \/ ReplyRaises
    \/ \E calls \in ReplyInputs : ReplyToolCalls(calls)
    \/ ForMalformed
    \/ ForExecuteTool
    \/ ForEnd

\* the return of a tool call in flight
ToolStep == \E i \in 1..MaxReplyCalls : ToolReturns(i)

LoopNext == LoopSteps \/ ToolStep

\* a tool call is in flight: ToolStep is enabled
ToolInFlight == lp.pc = "for" /\ lp.running # {}

\* weak fairness of ToolStep, its enabling condition written out: a tool
\* call in flight returns
ToolStepFair == []<>(~ToolInFlight) \/ []<><<ToolStep>>_vars

\* ------------------- the sessions of ImprovedAgentService (agent_service.py)
\* execute_tool calls per behaviour
MaxToolCalls == 2
\* AgentSession objects constructed per behaviour
MaxSessions == 2
\* cleanup_old_sessions calls per behaviour
MaxSweeps == 1
\* total_seconds() / 3600
SecondsPerHour == 3600
\* between two events of the session store the clock advances by half an
\* hour, SessionTicks times at most
HalfHour == SecondsPerHour \div 2
SessionTicks == 3

\* the tasks of the event loop that run execute_tool
Tasks == { 1, 2 }

\* str(uuid.uuid4()): an identifier no caller supplies, the n-th generated
Uuid(n) == Str(<<"#", Digits[n + 1]>>)

\* the session_id arguments of execute_tool
SessionIdInputs == { Str(<<"s", "1">>), None }

\* the tool calls made on sessions: a read that succeeds, one the path
\* policy denies, a path that is no str, a tool that is not registered
SessionCallInputs ==
    { ToolCall("file_system", FALSE, Kw("read", Str(P_a), None, None)),
      ToolCall("file_system", FALSE, Kw("read", Str(P_up_e), None, None)),
      CallT, CallU }

\* the hours an administrator passes to POST /sessions/cleanup
MaxAgeInputs == { 0, 1 }

\* AgentSession.__init__ at time t
AgentSession(session_id, t) ==
    [session_id |-> session_id, created_at |-> t, last_activity |-> t,
     tool_calls |-> <<>>, total_tool_executions |-> 0, successful_executions |-> 0]

\* the dict appended to session.tool_calls (agent_service.py 291-296)
ToolCallRecord(name, kw, res, t) ==
    [tool_name |-> name, parameters |-> kw, result |-> res, timestamp |-> t]

\* the block after `result = await tool.execute(**parameters)`: it holds no
\* await, so no other task runs inside it (agent_service.py 282-296)
SessionUpdate(session, name, kw, res, t) ==
    [SessionAfter(session, res) EXCEPT
        !.last_activity = t,
        !.tool_calls = Append(@, ToolCallRecord(name, kw, res, t))]

\* an execute_tool call: idle, or awaiting tool.execute since time t with a
\* reference to its AgentSession object
TaskIdle == [pc |-> "idle", session |-> 0, tool_name |-> "", parameters |-> None, since |-> 0]
TaskAwaiting(obj, name, kw, t) ==
    [pc |-> "execute", session |-> obj, tool_name |-> name, parameters |-> kw, since |-> t]

\* history: the n-th execute_tool call that ended, the key of its session,
\* the object it held (0 for none), whether an exception left it
Ended(n, key, obj, raised, res) ==
    [n |-> n, session_id |-> key, session |-> obj, raised |-> raised, result |-> res]
NoEnded == Ended(0, None, 0, FALSE, NoResult)

\* history: the n-th cleanup_old_sessions call and its argument
Swept(n, max_age_hours) == [n |-> n, max_age_hours |-> max_age_hours]
NoSwept == Swept(0, 0)

\* the service after __init__: active_sessions maps a session id to the
\* index of its object in objects; completed counts, for each object, the
\* tool.execute calls that returned to a task holding it (history)
NoSessions ==
    [active_sessions |-> [k \in {} |-> 0], objects |-> <<>>, completed |-> <<>>,
     tasks |-> [k \in Tasks |-> TaskIdle], calls |-> 0,
     ended |-> NoEnded, swept |-> NoSwept,
     allowed_tools |-> AllowedTools, enabled |-> [n \in Tools |-> TRUE]]

\* AgentConfig.allowed_tools is a mutable list of the service's configuration
SetAllowedTools(names) ==
    /\ lp.pc = "idle"
    /\ svc.allowed_tools # names
    /\ svc' = [svc EXCEPT !.allowed_tools = names]
    /\ UNCHANGED <<bk, fs, now, fs_config, stats, last, eng, lp, admin, web>>

\* ToolConfig.enabled of a registered tool is a mutable field
SetToolEnabled(name, b) ==
    /\ lp.pc = "idle"
    /\ svc.enabled[name] # b
    /\ svc' = [svc EXCEPT !.enabled[name] = b]
    /\ UNCHANGED <<bk, fs, now, fs_config, stats, last, eng, lp, admin, web>>

\* `if session_id is None: session_id = str(uuid.uuid4())`
SessionKey(s, session_id) ==
    IF session_id = None THEN Uuid(Len(s.objects)) ELSE session_id

\* ImprovedAgentService._get_or_create_session
GetOrCreateSession(s, key, t) ==
    IF key \in DOMAIN s.active_sessions THEN s
    ELSE [s EXCEPT !.objects = Append(@, AgentSession(key, t)),
                   !.completed = Append(@, 0),
                   !.active_sessions =
                       [k \in DOMAIN s.active_sessions \cup {key} |->
                           IF k = key THEN Len(s.objects) + 1 ELSE s.active_sessions[k]]]

\* execute_tool up to its await: the registry and allow-list checks return
\* before any session is looked up; the path pre-check raises TypeError for
\* a path that is no str (agent_service.py 227-280)
BeforeExecute(s, task, name, kw, key, t) ==
    IF name \notin Tools
    THEN [s EXCEPT !.calls = @ + 1,
                   !.ended = Ended(@.n + 1, key, 0, FALSE, FailureAt0("Tool not found"))]
    ELSE IF name \notin s.allowed_tools
    THEN [s EXCEPT !.calls = @ + 1,
                   !.ended = Ended(@.n + 1, key, 0, FALSE, FailureAt0("Tool not allowed"))]
    ELSE Let(GetOrCreateSession(s, key, t), LAMBDA c :
             IF kw.path.kind # "none" /\ ~IsStr(kw.path)
             THEN [c EXCEPT !.calls = @ + 1,
                            !.ended = Ended(@.n + 1, key, c.active_sessions[key], TRUE, NoResult)]
             ELSE [c EXCEPT !.calls = @ + 1,
                            !.tasks[task] = TaskAwaiting(c.active_sessions[key], name, kw, t)])

\* execute_tool once tool.execute returned res to the task
AfterExecute(s, task, res, t) ==
    Let(s.tasks[task], LAMBDA call :
        [s EXCEPT !.objects[call.session] =
                      SessionUpdate(@, call.tool_name, call.parameters, res, t),
                  !.completed[call.session] = @ + 1,
                  !.tasks[task] = TaskIdle,
                  !.ended = Ended(@.n + 1, s.objects[call.session].session_id,
                                  call.session, FALSE, res)])

\* a task calls execute_tool(tool_name, parameters, session_id)
ExecuteToolCall(task, call, session_id) ==
    /\ svc.tasks[task].pc = "idle"
    /\ svc.calls < MaxToolCalls
    /\ \/ call.name \notin Tools
       \/ SessionKey(svc, session_id) \in DOMAIN svc.active_sessions
       \/ Len(svc.objects) < MaxSessions
    /\ svc' = BeforeExecute(svc, task, call.name, call.args,
                            SessionKey(svc, session_id), now)
    /\ UNCHANGED <<bk, fs, now, fs_config, stats, last, eng, lp, admin, web>>

\* tool.execute returns to the task that awaits it
ExecuteToolReturn(task) ==
    /\ svc.tasks[task].pc = "execute"
    /\ \E o \in ExecuteOutcomes(fs_config, fs, now, svc.tasks[task].parameters) :
        /\ fs' = o.fs
        /\ stats' = Counted(stats, o.counted)
        /\ svc' = AfterExecute(svc, task, o.result, now)
    /\ UNCHANGED <<bk, now, fs_config, last, eng, lp, admin, web>>

\* a session is swept once its age has reached the threshold
ExpiredAtThreshold(session, t, max_age_hours) ==
    t - session.last_activity >= max_age_hours * SecondsPerHour

\* `age_hours > max_age_hours` (agent_service.py 524-525)
Expired(session, t, max_age_hours) ==
    t - session.last_activity > max_age_hours * SecondsPerHour

\* POST /sessions/cleanup: cleanup_old_sessions(max_age_hours)
CleanupOldSessions(max_age_hours) ==
    /\ svc.swept.n < MaxSweeps
    /\ svc' = [svc EXCEPT
                 !.active_sessions =
                     [k \in { e \in DOMAIN @ :
                                ~Expired(svc.objects[@[e]], now, max_age_hours) } |-> @[k]],
                 !.swept = Swept(@.n + 1, max_age_hours)]
    /\ UNCHANGED <<bk, fs, now, fs_config, stats, last, eng, lp, admin, web>>

\* time passes: d seconds, the clock read at most limit
Tick(d, limit) ==
    /\ now + d <= limit
    /\ now' = now + d
    /\ UNCHANGED <<bk, fs, fs_config, stats, last, eng, lp, admin, web, svc>>

SessionNext ==
    \/ \E task \in Tasks, call \in SessionCallInputs, session_id \in SessionIdInputs :
          ExecuteToolCall(task, call, session_id)
    \/ \E task \in Tasks : ExecuteToolReturn(task)
    \/ \E max_age_hours \in MaxAgeInputs : CleanupOldSessions(max_age_hours)
    \/ Tick(HalfHour, SessionTicks * HalfHour)


\* the searches of the web_search tool as the half hours pass
CacheNext ==
    \/ \E a \in AllowedDomainInputs, b \in BlockedDomainInputs : NewWebSearchTool(a, b)
    \/ \E kw \in SearchInputs, net \in {"ok", "fail"} : WebSearch(kw, net)
    \/ Tick(HalfHour, CacheTicks * HalfHour)

\* writes that end or time out, as the seconds pass
CancelNext ==
    \/ \E kw \in CancelRequests : WriteBegins(kw)
    \/ WorkerOpens
    \/ WorkerWrites
    \/ WorkerCloses
    \/ \E flushed \in BOOLEAN : WaitForTimeout(flushed)
    \/ Finalize
    \/ Tick(1, MaxCancelCalls)

\* the service configured, then chats that end with a text reply
OfferNext ==
    \/ \E names \in SUBSET Tools : SetAllowedTools(names)
    \/ \E name \in Tools, b \in BOOLEAN : SetToolEnabled(name, b)
    \/ \E n \in 1..MaxIterations : AgentChatWithTools(n)
    \/ ChatCompletion
    \/ ReplyText

\* ------------------------------------------------- the specifications
FsNext ==
    \/ \E kw \in Requests : Execute(kw, MaxCalls, FALSE)
    \/ \E p \in AdminInputs : AddAllowedPath(p, FALSE)
    \/ \E p \in AdminInputs : RemoveAllowedPath(p, FALSE)
    \/ ResetToDefaultPaths(FALSE)
    \/ \E b \in BOOLEAN : SetEnabled(b)

Init == FsInit /\ eng = EngIdle /\ lp = LoopIdle /\ web = NoWebTool /\ svc = NoSessions
        /\ bk = <<>>

\* the file_system tool and the permission API
Next == FsNext
Spec == Init /\ [][Next]_vars

\* writes, deletes and restores as the seconds pass
BackupNext ==
    \/ \E kw \in BackupRequests : Execute(kw, MaxBackupCalls, TRUE)
    \/ Tick(1, MaxBackupClock)
BackupSpec == Init /\ [][BackupNext]_vars

\* tools constructed with no allowlist, an empty one or the default one,
\* in safe mode and out of it, and called
ClosedNext ==
    \/ \E allowed_paths \in ClosedAllowlists, safe_mode \in BOOLEAN :
          ConfiguredFileSystemTool(allowed_paths, safe_mode)
    \/ \E kw \in ClosedRequests : Execute(kw, MaxClosedCalls, FALSE)
ClosedSpec == Init /\ [][ClosedNext]_vars

\* tools constructed with differently spelled allowlists, and called
SpellingNext ==
    \/ \E allowed_paths \in AllowlistInputs : NewFileSystemTool(allowed_paths)
    \/ \E kw \in SpellingRequests : Execute(kw, MaxSpellingCalls, FALSE)
SpellingSpec == Init /\ [][SpellingNext]_vars

\* directories made, listed and searched
DepthNext == \E kw \in DepthRequests : Execute(kw, MaxDepthCalls, FALSE)
DepthSpec == Init /\ [][DepthNext]_vars

\* texts written and read back
TextNext == \E kw \in TextRequests : Execute(kw, MaxTextCalls, FALSE)
TextSpec == Init /\ [][TextNext]_vars

\* searches as the half hours pass
CacheSpec == Init /\ [][CacheNext]_vars

\* concurrent execute_tool calls on the session store, and its sweep
SessionSpec == Init /\ [][SessionNext]_vars

\* the tools offered to the completion client under each configuration
OfferSpec == Init /\ [][OfferNext]_vars

\* the permission API at work between file_system calls
PermissionNext ==
    \/ \E kw \in PermissionRequests : Execute(kw, MaxCalls, FALSE)
    \/ \E p \in PermissionInputs : AddAllowedPath(p, TRUE)
    \/ \E p \in PermissionInputs : RemoveAllowedPath(p, TRUE)
    \/ ResetToDefaultPaths(TRUE)

PermissionSpec == Init /\ [][PermissionNext]_vars

\* the web_search tool, constructed and called
WebSpec == Init /\ [][WebNext]_vars

\* the web_search tool and its bulk_search calls
BulkSpec == Init /\ [][BulkNext]_vars

\* BaseTool.execute against the clock
EngineSpec == Init /\ [][EngineNext]_vars

\* BaseTool.execute and reset_statistics
StatisticsSpec == Init /\ [][StatisticsNext]_vars

\* execute(operation="write") and the timer of wait_for
CancelSpec == Init /\ [][CancelNext]_vars

\* the orchestration loop; the event loop keeps running the coroutine and
\* the completion client answers every request
LoopSpec     == Init /\ [][LoopNext]_vars
LoopFairSpec == Init /\ [][LoopNext]_vars /\ WF_vars(LoopSteps) /\ ToolStepFair

\* ---------------------------------------------------- the properties

\* the path p (segments) is an allowed root or lies below one
UnderRoot(p, roots) == \E i \in 1..Len(roots) : IsPrefix(Resolve(roots[i]), p)

\* the entries that g holds and f does not hold as they are
Touched(f, g) == {q \in DOMAIN g : q \notin DOMAIN f \/ g[q] # f[q]}

\* C1: a read, write or delete whose resolved path is neither an allowed
\* root nor below one returns success=false, and _execute is not run.
C1_OutsideRootsDenied ==
    (/\ last.kw.operation \in {"read", "write", "delete"}
     /\ IsStr(last.kw.path)
     /\ ~UnderRoot(Resolve(last.kw.path.val), fs_config.allowed_paths))
    => (~last.result.success /\ ~last.ran)

\* a write to /wx/a.py, whose string extends the allowed root /w, was
\* checked and denied
C1_Witness ==
    /\ fs_config.enabled
    /\ last.kw.operation = "write" /\ last.kw.path = Str(P_wx)
    /\ ~UnderRoot(Resolve(P_wx), fs_config.allowed_paths)
    /\ last.checked /\ ~last.ran /\ ~last.result.success

\* C2: every entry that a file_system operation creates or modifies lies
\* under an allowed root or in the backup directory.
C2_WritesStayUnderRoots ==
    [][\A q \in Touched(fs, fs') :
          UnderRoot(q, fs_config.allowed_paths) \/ IsPrefix(BackupDir, q)]_vars

\* C3: the tool executions of one agent_chat_with_tools call never exceed
\* max_iterations.
C3_ExecutionsBounded == Len(lp.calls) <= lp.max_iterations

\* C4: agent_chat_with_tools returns, whatever the completion client
\* replies.
C4_Terminates == <>(lp.pc = "returned")

\* the calls of tool_calls_made, as the completion client requested them
CallsOf(made) == [i \in 1..Len(made) |-> ToolCall(made[i].tool, FALSE, made[i].arguments)]

\* C5: when every reply of the completion client requests a tool call, the
\* run ends after exactly max_iterations tool executions with the
\* iteration-limited result, whose tool_calls are the calls made, in order.
C5_ExactlyNExecutions ==
    (lp.pc = "returned" /\ lp.stop \notin {"text", "client_error"})
    => /\ Len(lp.calls) = lp.max_iterations
       /\ lp.response.kind = "limited"
       /\ CallsOf(lp.response.tool_calls) = lp.calls

\* C6: the tool calls of one reply run one at a time in the order received:
\* only the call started last can be in flight, and a read that follows a
\* successful write of the same path in the reply returns what was written.
C6_SequentialInOrder ==
    /\ Cardinality(lp.running) <= 1
    /\ \A i \in lp.running : i = lp.idx - 1
    /\ \A i, j \in 1..Len(lp.results) :
          (/\ i < j
           /\ lp.reply[i] = CallW /\ lp.results[i].success
           /\ lp.reply[j] = CallR /\ lp.results[j] # NoResult)
          => lp.results[j] = Success(Payload("read", T_c2, Len(T_c2)))

\* the reply <<write b.py, read b.py>> has been executed: the read, which
\* fails on the initial file system, returned the content written
C6_Witness ==
    /\ lp.reply = <<CallW, CallR>>
    /\ Resolve(P_b) \notin DOMAIN InitialFs
    /\ lp.results[1].success
    /\ lp.results[2] = Success(Payload("read", T_c2, Len(T_c2)))
    /\ Len(lp.tool_calls_made) = 2

C8_AlwaysAToolResult ==
    /\ eng.pc # "raised"
    /\ eng.pc = "done" => eng.result # NoResult

\* _execute of an enabled tool raised an exception that is no ToolError, and
\* execute() returned the failed ToolResult
C8_Witness ==
    /\ fs_config.enabled
    /\ eng.pc = "done" /\ eng.invocations = 1 /\ eng.ends = "Exception"
    /\ eng.result = ExceptResult("Exception", "failed")

\* C9: while the tool is disabled, an execute() call returns success=false
\* with execution_time 0, runs neither _security_check nor _execute, and
\* changes neither the file system nor the counters.
C9_DisabledShortCircuits ==
    [][(~fs_config.enabled /\ fs_config' = fs_config /\ last' # NoCall)
       => /\ fs' = fs /\ stats' = stats
          /\ ~last'.result.success /\ last'.result.zero_time
          /\ ~last'.checked /\ ~last'.ran]_vars

\* a write to /w/a.py, which an enabled tool performs, was requested of the
\* disabled tool
C9_Witness ==
    /\ ~fs_config.enabled
    /\ last.kw = Kw("write", Str(P_a), None, Str(T_c2))
    /\ SecurityCheck(fs_config.allowed_paths, "write", Str(P_a)) = "allow"
    /\ last.result = FailureAt0("Tool file_system is disabled")
    /\ fs = InitialFs

\* C10: an execute() call whose _execute is not complete when
\* max_execution_time has elapsed returns then, with the timeout error, one
\* error counted and _execute invoked once.
C10_TimeoutEnforced ==
    (/\ eng.pc = "done" /\ eng.invocations = 1
     /\ (eng.elapsed > MaxExecutionTime \/ eng.result = TimedOut))
    => /\ eng.result = TimedOut
       /\ eng.elapsed <= MaxExecutionTime
       /\ stats.error_count = eng.errors_before + 1

C12_NoEffectOfBadContent ==
    [][(/\ fs_config.enabled /\ fs_config' = fs_config
        /\ last' # NoCall /\ last'.kw.operation = "write" /\ last'.kw.content = BadType)
       => fs' = fs]_vars

\* C13: between execute() calls every call has been counted:
\* execution_count is the number of calls and the sum of success_count and
\* error_count, and total_execution_time is the sum of the execution_time
\* of all the ToolResults returned.
C13_EveryCallCounted ==
    eng.pc \in {"idle", "done"}
    => /\ stats.execution_count = eng.calls
       /\ stats.execution_count = stats.success_count + stats.error_count
       /\ stats.total_execution_time = eng.durations

\* a ToolResult is fully of one kind: a success without an error string, or
\* a failure with a non-empty error string and no result payload
OneKind(r) ==
    \/ r.success /\ r.error = ""
    \/ ~r.success /\ r.error # "" /\ r.result = NoPayload

\* C14: every ToolResult that execute_tool returned, its own and those of
\* BaseTool.execute, is fully of one kind.
C14_ResultsOfOneKind ==
    \A i \in 1..Len(lp.tool_calls_made) : OneKind(lp.tool_calls_made[i].result)

\* a reply's write succeeded in BaseTool.execute with a payload, and its
\* call of an unregistered tool was failed by execute_tool itself
C14_Witness ==
    /\ lp.reply = <<CallW, CallU>>
    /\ Len(lp.tool_calls_made) = 2
    /\ lp.tool_calls_made[1].result = Success(Payload("written", <<>>, Len(T_c2)))
    /\ lp.tool_calls_made[2].result = FailureAt0("Tool not found")

\* the wording of a ToolResult's error for a path outside the allowlist
OutsideAllowlist == DenialError("not_allowed")

\* C15 as stated: a call made after the latest call of the permission API
\* is decided against the allowlist as that call left it; after add-path P
\* a path under P is not denied as outside the allowlist, and after
\* remove-path P a path under P is denied.
C15_NextCallSeesMutation ==
    (last # NoCall /\ IsStr(last.kw.path))
    => LET resolved == Resolve(last.kw.path.val)
           underP   == IsPrefix(Resolve(admin.path), resolved)
       IN  /\ (last.result.error = OutsideAllowlist)
                 <=> ~InAllowedPaths(resolved, fs_config.allowed_paths)
           /\ (admin.op = "add-path" /\ underP)
                 => last.result.error # OutsideAllowlist
           /\ (admin.op = "remove-path" /\ underP)
                 => (~last.result.success /\ ~last.ran)

\* C15, amended: after remove-path P a path under P is denied unless an
\* entry that remains in the allowlist covers it.
C15_NextCallSeesAllowlist ==
    (last # NoCall /\ IsStr(last.kw.path))
    => LET resolved == Resolve(last.kw.path.val)
           underP   == IsPrefix(Resolve(admin.path), resolved)
       IN  /\ (last.result.error = OutsideAllowlist)
                 <=> ~InAllowedPaths(resolved, fs_config.allowed_paths)
           /\ (admin.op = "add-path" /\ underP)
                 => last.result.error # OutsideAllowlist
           /\ (admin.op = "remove-path" /\ underP
               /\ ~UnderRoot(resolved, fs_config.allowed_paths))
                 => (~last.result.success /\ ~last.ran)

\* /e was added and removed again, and the call that followed, a read of
\* /e/p through /w/../e/p, was denied as outside the allowlist
C15_Witness ==
    /\ admin = AdminCall("remove-path", <<"/", "e">>)
    /\ last.kw = Kw("read", Str(P_up_e), None, None)
    /\ last.checked /\ ~last.ran
    /\ last.result.error = OutsideAllowlist

\* the segments of a host name split on "."
RECURSIVE SplitDots(_)
SplitDots(s) ==
    IF s = <<>> THEN << <<>> >>
    ELSE LET rest == SplitDots(Tail(s))
         IN  IF Head(s) = "."
             THEN << <<>> >> \o rest
             ELSE << <<Head(s)>> \o Head(rest) >> \o Tail(rest)

\* the number a decimal numeral of at most three digits denotes, -1 for
\* any other text
RECURSIVE Number(_)
Number(ds) ==
    IF ds = <<>> THEN 0
    ELSE 10 * Number(SubSeq(ds, 1, Len(ds) - 1))
         + (CHOOSE n \in 0..9 : Digits[n + 1] = ds[Len(ds)])

Octet(seg) ==
    IF seg # <<>> /\ Len(seg) <= 3 /\ \A i \in 1..Len(seg) : \E n \in 1..10 : Digits[n] = seg[i]
    THEN Number(seg) ELSE -1

\* the host is localhost, the IPv6 loopback, or an IPv4 literal in
\* 127.0.0.0/8, 10.0.0.0/8, 172.16.0.0/12, 192.168.0.0/16 or 169.254.0.0/16
IsInternalHost(host) ==
    LET parts == SplitDots(host)
        o     == [i \in 1..Len(parts) |-> Octet(parts[i])]
    IN  \/ host = <<"l", "o", "c", "a", "l", "h", "o", "s", "t">>
        \/ host = <<"[", ":", ":", "1", "]">>
        \/ /\ Len(parts) = 4
           /\ \A i \in 1..4 : o[i] \in 0..255
           /\ \/ o[1] \in {127, 10}
              \/ o[1] = 172 /\ o[2] \in 16..31
              \/ o[1] = 192 /\ o[2] = 168
              \/ o[1] = 169 /\ o[2] = 254

\* C16: no request goes to a loopback, link-local or private-range host: a
\* validate_url or extract_content call on such a URL is denied, whatever
\* allowed_domains and blocked_domains contain.
C16_InternalHostsDenied ==
    web.pc = "ready"
    => /\ \A h \in web.requests : ~IsInternalHost(h)
       /\ (web.last # NoWebCall /\ IsInternalHost(Hostname(web.last.query)))
             => (~web.last.result.success /\ web.last.reason # "allow")

\* the host is the domain d or a subdomain of it
HostMatches(host, d) ==
    \/ host = d
    \/ /\ Len(host) > Len(d)
       /\ SubSeq(host, Len(host) - Len(d), Len(host)) = <<".">> \o d

\* C17: a call on a URL whose host matches a blocked domain is denied, and
\* with allowed_domains configured a call on a URL whose host matches none
\* of them is denied.
C17_DomainFilter ==
    (web.pc = "ready" /\ web.last # NoWebCall)
    => LET host == Hostname(web.last.query)
       IN  /\ (\E i \in 1..Len(web.blocked_domains) : HostMatches(host, web.blocked_domains[i]))
                 => web.last.reason # "allow"
           /\ (/\ web.allowed_domains # <<>>
               /\ ~ \E i \in 1..Len(web.allowed_domains) : HostMatches(host, web.allowed_domains[i]))
                 => web.last.reason # "allow"

\* C18: a read or write is denied when the extension of the resolved path
\* is a blocked extension, or when allowed_extensions is configured and the
\* extension is not one of them.
C18_ExtensionRule ==
    (last # NoCall /\ last.kw.operation \in {"read", "write"} /\ IsStr(last.kw.path))
    => LET ext == Lower(Suffix(Resolve(last.kw.path.val)))
       IN  (\/ ext \in BlockedExtensions
            \/ AllowedExtensions # {} /\ ext \notin AllowedExtensions)
           => (~last.result.success /\ ~last.ran)

\* C19: a call whose resolved path contains a blocked pattern is denied,
\* whatever the operation and whatever add-path, remove-path and
\* reset-to-defaults have made of the allowlist.
C19_BlockedPatternDenied ==
    (/\ last # NoCall /\ IsStr(last.kw.path)
     /\ \E i \in 1..Len(BlockedPatterns) :
           Contains(PathStr(Resolve(last.kw.path.val)), BlockedPatterns[i]))
    => (~last.result.success /\ ~last.ran)

\* /e has been added to the allowlist, and the read of /e/p, which lies
\* under it and contains the blocked pattern /e/p, was denied for the
\* pattern
C19_Witness ==
    /\ last.kw = Kw("read", Str(P_up_e), None, None)
    /\ UnderRoot(Resolve(P_up_e), fs_config.allowed_paths)
    /\ last.checked /\ ~last.ran
    /\ last.result.error = DenialError("pattern")

\* C20: a call whose raw path holds a ".." segment and resolves outside
\* every allowed root is denied with the traversal reason.
C20_TraversalReason ==
    (/\ last # NoCall /\ last.checked /\ IsStr(last.kw.path)
     /\ \E i \in 1..Len(Parts(last.kw.path.val)) : Parts(last.kw.path.val)[i] = <<".", ".">>
     /\ ~UnderRoot(Resolve(last.kw.path.val), fs_config.allowed_paths))
    => (~last.result.success /\ last.result.error = DenialError("traversal"))

\* the records of a log whose result has success = true
Successes(log) == Cardinality({ i \in 1..Len(log) : log[i].result.success })

\* C21: for every session in the store, total_tool_executions is the length
\* of its tool_calls log and successful_executions is the number of its
\* records with a successful result, and the log misses no tool.execute
\* that returned for the session, whatever the interleaving of the
\* execute_tool calls of the tasks.
C21_CountersMatchLog ==
    \A k \in DOMAIN svc.active_sessions :
        /\ svc.objects[svc.active_sessions[k]].total_tool_executions
             = Len(svc.objects[svc.active_sessions[k]].tool_calls)
        /\ svc.objects[svc.active_sessions[k]].successful_executions
             = Successes(svc.objects[svc.active_sessions[k]].tool_calls)
        /\ Len(svc.objects[svc.active_sessions[k]].tool_calls)
             = svc.completed[svc.active_sessions[k]]

\* two execute_tool calls on one session overlap: one has been recorded
\* while the other, dispatched before that record was written, still
\* awaits tool.execute
C21_Witness ==
    \E k \in DOMAIN svc.active_sessions, task \in Tasks :
        /\ svc.tasks[task].pc = "execute"
        /\ svc.tasks[task].session = svc.active_sessions[k]
        /\ Len(svc.objects[svc.active_sessions[k]].tool_calls) = 1
        /\ svc.tasks[task].since
             < svc.objects[svc.active_sessions[k]].tool_calls[1].timestamp

\* the length of the log of the session stored under key, 0 without one
LogLength(s, key) ==
    IF key \in DOMAIN s.active_sessions
    THEN Len(s.objects[s.active_sessions[key]].tool_calls) ELSE 0

\* C22: every execute_tool call that ends for the session identifier S,
\* the name of an unknown tool included, leaves a session S in the store
\* whose log holds exactly one record more than before the call ended and
\* whose last_activity is the time of that end.
C22_EveryCallRecorded ==
    [][svc'.ended.n = svc.ended.n + 1
       => /\ svc'.ended.session_id \in DOMAIN svc'.active_sessions
          /\ LogLength(svc', svc'.ended.session_id)
               = LogLength(svc, svc'.ended.session_id) + 1
          /\ svc'.objects[svc'.active_sessions[svc'.ended.session_id]].last_activity = now']_vars

\* C23: cleanup_old_sessions(max_age) removes from the store exactly the
\* sessions whose last activity lies more than max_age hours back, and
\* leaves every other session, its log and its counters as they were.
C23_SweepsExactlyTheOld ==
    [][svc'.swept.n = svc.swept.n + 1
       => /\ DOMAIN svc'.active_sessions =
               { k \in DOMAIN svc.active_sessions :
                   now - svc.objects[svc.active_sessions[k]].last_activity
                     <= svc'.swept.max_age_hours * SecondsPerHour }
          /\ \A k \in DOMAIN svc'.active_sessions :
               svc'.active_sessions[k] = svc.active_sessions[k]
          /\ svc'.objects = svc.objects]_vars

\* a sweep with max_age = 1 hour has removed a session last active an hour
\* and a half ago and kept one last active exactly an hour ago
C23_Witness ==
    /\ svc.swept.n = 1
    /\ svc.swept.max_age_hours = 1
    /\ \E o \in 1..Len(svc.objects) :
         /\ \A k \in DOMAIN svc.active_sessions : svc.active_sessions[k] # o
         /\ now - svc.objects[o].last_activity = 3 * HalfHour
    /\ \E k \in DOMAIN svc.active_sessions :
         now - svc.objects[svc.active_sessions[k]].last_activity = SecondsPerHour

\* the system paths the deny-list of add-path is said to name: /etc, /root
SystemPaths == << <<"/", "e">>, S_root >>

\* C24: no path that is a system path of the deny-list, or lies inside
\* one, is ever in the allowlist: add-path rejects it and leaves the
\* allowlist as it was.
C24_NoSystemPathAllowed ==
    \A i \in 1..Len(fs_config.allowed_paths) :
        ~UnderRoot(Resolve(fs_config.allowed_paths[i]), SystemPaths)

\* C25: whatever add-path, remove-path and reset-to-defaults have done,
\* every path of the built-in default set is in the allowlist, and after
\* reset-to-defaults the allowlist is exactly the default set.
C25_DefaultsStay ==
    /\ \A i \in 1..Len(DefaultAllowedPaths) :
         \E j \in 1..Len(fs_config.allowed_paths) :
             fs_config.allowed_paths[j] = DefaultAllowedPaths[i]
    /\ admin.op = "reset-to-defaults" => fs_config.allowed_paths = DefaultAllowedPaths

\* remove-path has taken an added path out again, and the allowlist is
\* back to the default set
C25_Witness ==
    /\ admin.op = "remove-path"
    /\ admin.path \notin { DefaultAllowedPaths[i] : i \in 1..Len(DefaultAllowedPaths) }
    /\ fs_config.allowed_paths = DefaultAllowedPaths

\* the artifacts of the backup root
Artifacts(f) == { q \in DOMAIN f : Len(q) = Len(BackupDir) + 1 /\ Parent(q) = BackupDir }

\* C26: with enable_backup set, for every write or delete that succeeded
\* on an existing file or directory, the backup root holds an artifact
\* with what the target held just before that operation: no later backup
\* has replaced it.
C26_EveryOperationRecoverable ==
    \A i \in 1..Len(bk) :
        \E q \in Artifacts(fs) : Snapshot(fs, q) = bk[i].snapshot

\* C27: a restore of p without a backup name that succeeds leaves at p
\* what the latest write or delete of p itself found there, never the
\* content of another file of the same base name nor an older content of p.
C27_RestoresLatestOwnBackup ==
    [][(/\ stats'.execution_count = stats.execution_count + 1
        /\ last'.kw.operation = "restore" /\ last'.result.success)
       => \E i \in 1..Len(bk) :
             /\ bk[i].source = Resolve(last'.kw.path.val)
             /\ \A j \in (i + 1)..Len(bk) : bk[j].source # bk[i].source
             /\ Snapshot(fs', bk[i].source) = bk[i].snapshot]_vars

\* the number of bytes of the UTF-8 encoding of a text
RECURSIVE ByteSize(_)
ByteSize(text) ==
    IF text = <<>> THEN 0
    ELSE (IF Head(text) = "é" THEN 2 ELSE 1) + ByteSize(Tail(text))

\* C28: a read of p that follows a successful write(p, c) succeeds and
\* returns exactly c, and the write reported the size of c in bytes.
C28_WriteReadRoundTrip ==
    [][(/\ stats'.execution_count = stats.execution_count + 1
        /\ last.kw.operation = "write" /\ last.result.success
        /\ last'.kw.operation = "read" /\ last'.kw.path = last.kw.path)
       => /\ last'.result.success
          /\ last'.result.result.content = last.kw.content.val
          /\ last.result.result.size = ByteSize(last.kw.content.val)]_vars

\* C29: a search that succeeds is answered from the cache exactly when a
\* request with the same operation, query, engine, time range and language
\* was answered by the search engine less than cache_ttl ago.
C29_CacheHitsExactly ==
    [][(/\ web.pc = "ready" /\ web'.searches = web.searches + 1
        /\ web'.searched.result.success)
       => (web'.searched.cached
           <=> \E h \in web.answered :
                  /\ h.request = web'.searched.request
                  /\ now - h.at < CacheTtl)]_vars

\* C30: after every search, search_cache holds only entries younger than
\* cache_ttl.
C30_OnlyFreshEntries ==
    [][(web.pc = "ready" /\ web'.searches = web.searches + 1)
       => \A k \in DOMAIN web'.search_cache :
              now' - web'.search_cache[k].timestamp < CacheTtl]_vars

\* C31: the tool list that agent_chat_with_tools hands to the completion
\* client holds exactly the tools that are enabled and listed in
\* allowed_tools
C31_OffersEnabledAllowedTools ==
    [][ (lp.pc = "idle" /\ lp'.pc = "while")
        => lp'.functions = AllowedFunctionSpecs(svc.enabled, svc.allowed_tools) ]_vars

\* C32: a bulk_search call through execute() that the security check lets
\* pass probes each of the first min(n, 10) urls, in list order, and
\* returns one result for each of them
C32_BulkProbesEachUrl ==
    (web.pc = "ready" /\ web.bulk.reason = "allow")
    => /\ Len(web.bulk.results) = (IF Len(web.bulk.urls) < BulkLimit
                                   THEN Len(web.bulk.urls) ELSE BulkLimit)
       /\ web.bulk.probed = SubSeq(web.bulk.urls, 1, Len(web.bulk.results))

\* C33: a recursive list or search returns no entry more than
\* max_directory_depth levels below the requested directory
C33_DepthBounded ==
    (last.kw.operation \in {"list", "search"} /\ last.result.success)
    => \A q \in last.result.result.items :
          Len(q) - Len(Resolve(last.kw.path.val)) <= MaxDirectoryDepth

\* the allowlist with every entry in canonical form
Canonical(allowed_paths) ==
    [i \in 1..Len(allowed_paths) |-> PathStr(Resolve(allowed_paths[i]))]

\* C34: the decision of _security_check is the one it takes under the
\* canonical spelling of the allowlist, however the entries are spelled
C34_DecisionByCanonicalForm ==
    last.checked
    => (last.ran <=> SecurityCheck(Canonical(PolicyPaths(fs_config)),
                                   last.kw.operation, last.kw.path) = "allow")

\* C35: when a completion request is sent, the conversation holds one
\* assistant message for each reply that requested tool calls, and every
\* tool-call id of an assistant message is answered by a tool message
C35_EveryCallIdAnswered ==
    lp.pc = "completion"
    => LET msgs == lp.message_dicts
           I    == { i \in 1..Len(msgs) : msgs[i].role = "assistant" }
       IN  /\ \A i \in I : \A id \in msgs[i].tool_calls :
                 \E j \in 1..Len(msgs) :
                     msgs[j].role = "tool" /\ msgs[j].tool_call_id = id
           /\ \A i, j \in I : i # j => msgs[i].tool_calls \cap msgs[j].tool_calls = {}

\* C36: once execute() has returned the timeout result of a write, the
\* operation changes the file system no more and leaves no file open
C36_TimedOutWorkIsCancelled ==
    [][ (/\ eng.pc = "done" /\ eng.op = "write"
         /\ eng.result = ExceptResult("TimeoutError", "")
         /\ eng'.calls = eng.calls)
        => (fs' = fs /\ ~eng'.handle) ]_vars

\* C37: a url that validate_url or extract_content sent a request to was
\* handed to _validate_url_security first, and passed it
C37_RequestsAreValidated ==
    (/\ web.pc = "ready" /\ web.last.reason = "allow"
     /\ web.last.operation \in {"validate_url", "extract_content"})
    => /\ StartsWith(web.last.query, S_http) \/ StartsWith(web.last.query, S_https)
       /\ ValidateUrlSecurity(web, web.last.query) = "allow"

\* C38: when an execute_tool call returns after its tool.execute, the
\* session object it wrote its record to is the one the store holds under
\* the session identifier, whatever sweeps ran while it was in flight
C38_RecordLandsInStoredSession ==
    [][(/\ svc'.ended.n = svc.ended.n + 1
        /\ svc'.ended.session # 0 /\ ~svc'.ended.raised)
       => /\ svc'.ended.session_id \in DOMAIN svc'.active_sessions
          /\ svc'.active_sessions[svc'.ended.session_id] = svc'.ended.session]_vars

\* C39: the successes and errors counted never exceed the executions
\* counted, so that success_rate stays within 100
C39_CountersConsistent ==
    stats.success_count + stats.error_count <= stats.execution_count

====
